---- MODULE Spec2Model ----
(***************************************************************************)
(* Configuration service (config-app): the four tables of app/models.py    *)
(* and the request handlers of app/routers/*.py, one action per database   *)
(* statement of a handler.                                                 *)
(*                                                                         *)
(* The store.  app/database.py (engine, get_db) is not among the sources.  *)
(* Every handler takes its session from Depends(get_db), so a request has  *)
(* a session of its own; the database is the SQLite file that              *)
(* migrate_add_soft_delete.py names.  A query reads the committed rows, an *)
(* object a handler has loaded keeps the column values it was loaded with, *)
(* and db.commit writes the session's pending changes as one transaction,  *)
(* which a violated unique constraint refuses as a whole.                  *)
(*                                                                         *)
(* Documents.  A JSON value is a tag for its Python type and a payload;    *)
(* a string is kept whole and Chars gives its characters to the functions  *)
(* that look inside it (json.dumps, str.lower, the substring test, the     *)
(* vault:// pattern).  The secret provider is outside the store: a request *)
(* that resolves references meets one of KeyVaultClients.                  *)
(*                                                                         *)
(* Left out: timestamps other than deleted_at, the description columns,    *)
(* and the skip/limit pagination of the list handlers (their defaults 0    *)
(* and 100 return every row of the tables modelled here).                  *)
(***************************************************************************)
EXTENDS Integers, Sequences, FiniteSets, TLC

\* ------------------------------------------------------------ bounds
\* Requests one client sends in a run.
MaxRequests == 6
\* Requests two concurrent clients send in a run.
MaxConcRequests == 3
\* Read requests two concurrent clients send in a run.
MaxReads == 2

\* ------------------------------------------------------------ inputs
Workers == {1, 2}
NsNames == {"global"}
SchemaNames == {"TestSchema"}
Keys == {"db_config", "usecases"}

\* Schema documents {"type":"object","properties":{"port":{"type":T}},
\* "required":["port"]}, written by the type T they require of port.
Structures == {[port |-> "integer"], [port |-> "string"]}

NULL == "NULL"

\* JSON documents (the value column, request and response bodies): a tag t
\* for the Python type and a payload v.  An object is the sequence of its
\* <<key, value>> pairs in insertion order, an array the sequence of its
\* elements.
JStr(s) == [t |-> "str", v |-> s]
JInt(n) == [t |-> "int", v |-> n]
JNone == [t |-> "NoneType", v |-> NULL]
JList(items) == [t |-> "list", v |-> items]
JDict(items) == [t |-> "dict", v |-> items]

\* isinstance(value, cls)
isinstance(value, cls) == value.t = cls

\* The type names of JSON Schema.
JsonType(value) ==
    CASE value.t = "int" -> "integer"
      [] value.t = "str" -> "string"
      [] value.t = "NoneType" -> "null"
      [] value.t = "list" -> "array"
      [] value.t = "dict" -> "object"

\* Config values {"port": 5432}, {"port": 8080}, {"port": "not_an_integer"}.
Values ==
    {JDict(<<<<"port", JInt(5432)>>>>),
     JDict(<<<<"port", JInt(8080)>>>>),
     JDict(<<<<"port", JStr("not_an_integer")>>>>)}
utcnow == "utcnow"

\* ------------------------------------------------------------ strings
\* The strings of the documents, queries and secret names used here, and
\* the characters of each.
Vocabulary ==
    {"port", "password", "usecase_id", "name",
     "id", "not_an_integer", "vault://db-pw", "vault://missing",
     "db-pw", "missing", "UC001", "UC999",
     "Onboarding", "apple pie", "banana split", "PIE",
     "onboarding", "5432", "zzz", "1",
     "None", "replicas", "note", "see vault://db-pw",
     "vault://", "vault://db-pw\n", "pie\", \"banana", "db-pw\n"}

Chars(s) ==
    CASE s = "port" ->
            <<"p", "o", "r", "t">>
      [] s = "password" ->
            <<"p", "a", "s", "s", "w", "o", "r", "d">>
      [] s = "usecase_id" ->
            <<"u", "s", "e", "c", "a", "s", "e", "_", "i", "d">>
      [] s = "name" ->
            <<"n", "a", "m", "e">>
      [] s = "id" ->
            <<"i", "d">>
      [] s = "not_an_integer" ->
            <<"n", "o", "t", "_", "a", "n", "_", "i", "n", "t", "e", "g", "e", "r">>
      [] s = "vault://db-pw" ->
            <<"v", "a", "u", "l", "t", ":", "/", "/", "d", "b", "-", "p", "w">>
      [] s = "vault://missing" ->
            <<"v", "a", "u", "l", "t", ":", "/", "/", "m", "i", "s", "s", "i", "n", "g">>
      [] s = "db-pw" ->
            <<"d", "b", "-", "p", "w">>
      [] s = "missing" ->
            <<"m", "i", "s", "s", "i", "n", "g">>
      [] s = "UC001" ->
            <<"U", "C", "0", "0", "1">>
      [] s = "UC999" ->
            <<"U", "C", "9", "9", "9">>
      [] s = "Onboarding" ->
            <<"O", "n", "b", "o", "a", "r", "d", "i", "n", "g">>
      [] s = "apple pie" ->
            <<"a", "p", "p", "l", "e", " ", "p", "i", "e">>
      [] s = "banana split" ->
            <<"b", "a", "n", "a", "n", "a", " ", "s", "p", "l", "i", "t">>
      [] s = "PIE" ->
            <<"P", "I", "E">>
      [] s = "onboarding" ->
            <<"o", "n", "b", "o", "a", "r", "d", "i", "n", "g">>
      [] s = "5432" ->
            <<"5", "4", "3", "2">>
      [] s = "zzz" ->
            <<"z", "z", "z">>
      [] s = "1" ->
            <<"1">>
      [] s = "None" ->
            <<"N", "o", "n", "e">>
      [] s = "replicas" ->
            <<"r", "e", "p", "l", "i", "c", "a", "s">>
      [] s = "note" ->
            <<"n", "o", "t", "e">>
      [] s = "see vault://db-pw" ->
            <<"s", "e", "e", " ", "v", "a", "u", "l", "t", ":", "/", "/", "d", "b", "-", "p", "w">>
      [] s = "vault://" ->
            <<"v", "a", "u", "l", "t", ":", "/", "/">>
      [] s = "vault://db-pw\n" ->
            <<"v", "a", "u", "l", "t", ":", "/", "/", "d", "b", "-", "p", "w", "\n">>
      [] s = "db-pw\n" ->
            <<"d", "b", "-", "p", "w", "\n">>
      [] s = "pie\", \"banana" ->
            <<"p", "i", "e", "\"", ",", " ", "\"", "b", "a", "n", "a", "n", "a">>

\* The string of a sequence of characters.
Text(chars) == CHOOSE s \in Vocabulary : Chars(s) = chars

ascii_uppercase ==
    <<"A", "B", "C", "D", "E", "F", "G", "H", "I", "J", "K", "L", "M",
      "N", "O", "P", "Q", "R", "S", "T", "U", "V", "W", "X", "Y", "Z">>
ascii_lowercase ==
    <<"a", "b", "c", "d", "e", "f", "g", "h", "i", "j", "k", "l", "m",
      "n", "o", "p", "q", "r", "s", "t", "u", "v", "w", "x", "y", "z">>

\* str.lower()
lower(chars) ==
    [i \in 1..Len(chars) |->
        IF \E k \in 1..26 : ascii_uppercase[k] = chars[i]
        THEN ascii_lowercase[CHOOSE k \in 1..26 :
                                ascii_uppercase[k] = chars[i]]
        ELSE chars[i]]

\* needle in hay
Contains(hay, needle) ==
    \E i \in 0..(Len(hay) - Len(needle)) :
        SubSeq(hay, i + 1, i + Len(needle)) = needle

\* The decimal digits of an integer.
RECURSIVE digits(_)
digits(n) ==
    IF n < 0 THEN <<"-">> \o digits(0 - n)
    ELSE IF n < 10
    THEN <<<<"0", "1", "2", "3", "4", "5", "6", "7", "8", "9">>[n + 1]>>
    ELSE digits(n \div 10) \o digits(n % 10)

\* sep.join(parts)
RECURSIVE join(_, _)
join(sep, parts) ==
    IF parts = <<>> THEN <<>>
    ELSE IF Len(parts) = 1 THEN parts[1]
    ELSE parts[1] \o sep \o join(sep, Tail(parts))

\* The body of a JSON string: json.dumps escapes the quote, the backslash
\* and the line break (the only control character used here).
RECURSIVE encode_basestring(_)
encode_basestring(chars) ==
    IF chars = <<>> THEN <<>>
    ELSE (CASE chars[1] = "\"" -> <<"\\", "\"">>
            [] chars[1] = "\\" -> <<"\\", "\\">>
            [] chars[1] = "\n" -> <<"\\", "n">>
            [] OTHER -> <<chars[1]>>)
         \o encode_basestring(Tail(chars))

\* json.dumps(value), default separators.
RECURSIVE dumps(_)
dumps(value) ==
    CASE isinstance(value, "str") ->
            <<"\"">> \o encode_basestring(Chars(value.v)) \o <<"\"">>
      [] isinstance(value, "int") -> digits(value.v)
      [] isinstance(value, "NoneType") -> <<"n", "u", "l", "l">>
      [] isinstance(value, "list") ->
            <<"[">>
            \o join(<<",", " ">>,
                    [i \in 1..Len(value.v) |-> dumps(value.v[i])])
            \o <<"]">>
      [] isinstance(value, "dict") ->
            <<"{">>
            \o join(<<",", " ">>,
                    [i \in 1..Len(value.v) |->
                        <<"\"">> \o encode_basestring(Chars(value.v[i][1]))
                        \o <<"\"", ":", " ">>
                        \o dumps(value.v[i][2])])
            \o <<"}">>

\* repr(value) of Python, and str(value): a string is itself, a container
\* holds the repr of its parts.
RECURSIVE repr(_)
repr(value) ==
    CASE isinstance(value, "str") -> <<"'">> \o Chars(value.v) \o <<"'">>
      [] isinstance(value, "int") -> digits(value.v)
      [] isinstance(value, "NoneType") -> <<"N", "o", "n", "e">>
      [] isinstance(value, "list") ->
            <<"[">>
            \o join(<<",", " ">>,
                    [i \in 1..Len(value.v) |-> repr(value.v[i])])
            \o <<"]">>
      [] isinstance(value, "dict") ->
            <<"{">>
            \o join(<<",", " ">>,
                    [i \in 1..Len(value.v) |->
                        <<"'">> \o Chars(value.v[i][1]) \o <<"'", ":", " ">>
                        \o repr(value.v[i][2])])
            \o <<"}">>

str(value) ==
    IF isinstance(value, "str") THEN Chars(value.v) ELSE repr(value)

\* dict.get(key): None when the key is absent.
get(item, key) ==
    IF \E i \in 1..Len(item.v) : item.v[i][1] = key
    THEN item.v[CHOOSE i \in 1..Len(item.v) : item.v[i][1] = key][2]
    ELSE JNone

VARIABLES
    namespaces,   \* table namespaces: row id = index
    schemas,      \* table config_schemas
    entries,      \* table config_entries
    history,      \* table config_history, in insertion order
    pc,           \* per worker: the statement its handler is at
    loc,          \* per worker: the request's inputs and loaded objects
    res,          \* per worker: the response of the finished request
    left          \* requests the run may still receive

vars == <<namespaces, schemas, entries, history, pc, loc, res, left>>
store == <<namespaces, schemas, entries, history>>

\* ------------------------------------------------------------ rows
Namespace(name) == [name |-> name, deleted_at |-> NULL]

ConfigSchema(name, version, structure) ==
    [name |-> name, version |-> version, structure |-> structure,
     is_active |-> TRUE, deleted_at |-> NULL]

ConfigEntryDefaultVersion == 1

ConfigEntry(namespace_id, schema_id, key, value) ==
    [namespace_id |-> namespace_id, schema_id |-> schema_id, key |-> key,
     value |-> value, version |-> ConfigEntryDefaultVersion,
     deleted_at |-> NULL]

ConfigHistory(config_id, value, version) ==
    [config_id |-> config_id, value |-> value, version |-> version]

Ids(table) == 1..Len(table)

\* .first() of a query: the lowest matching row id, 0 for None.
First(S) == IF S = {} THEN 0 ELSE CHOOSE i \in S : \A j \in S : i <= j

\* ------------------------------------------------------------ constraints
\* Namespace.name: unique=True
NamespaceNameUnique(rows) ==
    \A i, j \in Ids(rows) : rows[i].name = rows[j].name => i = j

\* The table without _name_version_uc.
NameVersionUnique_absent(rows) == TRUE

\* _name_version_uc
NameVersionUnique(rows) ==
    \A i, j \in Ids(rows) :
        (rows[i].name = rows[j].name /\ rows[i].version = rows[j].version)
            => i = j

\* The table without _namespace_key_uc.
NamespaceKeyUnique_absent(rows) == TRUE

\* _namespace_key_uc
NamespaceKeyUnique(rows) ==
    \A i, j \in Ids(rows) :
        (rows[i].namespace_id = rows[j].namespace_id
            /\ rows[i].key = rows[j].key) => i = j

\* ------------------------------------------------------------ responses
Ok(body) == [status |-> 200, detail |-> "", body |-> body]
HTTPException(status, detail) ==
    [status |-> status, detail |-> detail, body |-> <<>>]
\* An exception no handler catches: the framework answers 500.
IntegrityError == [status |-> 500, detail |-> "IntegrityError", body |-> <<>>]
NoResponse == [status |-> 0, detail |-> "", body |-> <<>>]

Idle == [op |-> "idle"]

Finish(w, response) ==
    /\ pc' = [pc EXCEPT ![w] = "done"]
    /\ res' = [res EXCEPT ![w] = response]

Goto(w, label) ==
    /\ pc' = [pc EXCEPT ![w] = label]
    /\ UNCHANGED res

\* A request arrives at an idle worker.
Receive(w) ==
    /\ pc[w] = "idle"
    /\ left > 0
    /\ left' = left - 1

\* jsonschema.validate of a value against a schema document: an object
\* with the required property port of the type the document names.
validate(value, structure) ==
    /\ isinstance(value, "dict")
    /\ \E i \in 1..Len(value.v) :
        /\ value.v[i][1] = "port"
        /\ JsonType(value.v[i][2]) = structure.port

Init ==
    /\ namespaces = <<>>
    /\ schemas = <<>>
    /\ entries = <<>>
    /\ history = <<>>
    /\ pc = [w \in Workers |-> "idle"]
    /\ loc = [w \in Workers |-> Idle]
    /\ res = [w \in Workers |-> NoResponse]
    /\ left = MaxRequests

\* ------------------------------------------------------------ namespaces.py
NamespaceBody(id, rows) == [id |-> id, name |-> rows[id].name]

\* create_namespace: the name lookup.
create_namespace(w) ==
    /\ Receive(w)
    /\ \E name \in NsNames :
        LET db_namespace ==
                First({i \in Ids(namespaces) : namespaces[i].name = name})
        IN  /\ loc' = [loc EXCEPT ![w] =
                        [op |-> "create_namespace", name |-> name]]
            /\ IF db_namespace # 0
               THEN Finish(w, HTTPException(400, "Namespace already exists"))
               ELSE Goto(w, "create_namespace_commit")
    /\ UNCHANGED store

\* create_namespace: db.add, db.commit, db.refresh.
create_namespace_commit(w) ==
    /\ pc[w] = "create_namespace_commit"
    /\ LET rows == Append(namespaces, Namespace(loc[w].name))
       IN  IF NamespaceNameUnique(rows)
           THEN /\ namespaces' = rows
                /\ Finish(w, Ok(NamespaceBody(Len(rows), rows)))
           ELSE /\ UNCHANGED namespaces
                /\ Finish(w, IntegrityError)
    /\ UNCHANGED <<schemas, entries, history, loc>>
    /\ UNCHANGED left

read_namespaces(w) ==
    /\ Receive(w)
    /\ loc' = [loc EXCEPT ![w] = [op |-> "read_namespaces"]]
    /\ Finish(w, Ok({NamespaceBody(i, namespaces) :
                        i \in {j \in Ids(namespaces) :
                                  namespaces[j].deleted_at = NULL}}))
    /\ UNCHANGED store

read_namespace(w) ==
    /\ Receive(w)
    /\ \E namespace_id \in 1..(Len(namespaces) + 1) :
        LET namespace ==
                First({i \in Ids(namespaces) :
                          i = namespace_id /\ namespaces[i].deleted_at = NULL})
        IN  /\ loc' = [loc EXCEPT ![w] =
                        [op |-> "read_namespace", id |-> namespace_id]]
            /\ IF namespace = 0
               THEN Finish(w, HTTPException(404, "Namespace not found"))
               ELSE Finish(w, Ok(NamespaceBody(namespace, namespaces)))
    /\ UNCHANGED store

\* delete_namespace: the lookup.
delete_namespace(w) ==
    /\ Receive(w)
    /\ \E namespace_id \in 1..(Len(namespaces) + 1) :
        LET namespace ==
                First({i \in Ids(namespaces) :
                          i = namespace_id /\ namespaces[i].deleted_at = NULL})
        IN  /\ loc' = [loc EXCEPT ![w] =
                        [op |-> "delete_namespace", id |-> namespace_id]]
            /\ IF namespace = 0
               THEN Finish(w, HTTPException(404, "Namespace not found"))
               ELSE Goto(w, "delete_namespace_commit")
    /\ UNCHANGED store

\* delete_namespace deleting the entries of the namespace along with it.
delete_namespace_commit_cascade(w) ==
    /\ pc[w] = "delete_namespace_commit"
    /\ namespaces' = [namespaces EXCEPT ![loc[w].id].deleted_at = utcnow]
    /\ entries' = [i \in Ids(entries) |->
                    IF entries[i].namespace_id = loc[w].id
                    THEN [entries[i] EXCEPT !.deleted_at = utcnow]
                    ELSE entries[i]]
    /\ Finish(w, Ok([message |-> "Namespace deleted successfully",
                     id |-> loc[w].id]))
    /\ UNCHANGED <<schemas, history, loc>>
    /\ UNCHANGED left

\* delete_namespace: namespace.deleted_at = utcnow(), db.commit.
delete_namespace_commit(w) ==
    /\ pc[w] = "delete_namespace_commit"
    /\ namespaces' = [namespaces EXCEPT ![loc[w].id].deleted_at = utcnow]
    /\ Finish(w, Ok([message |-> "Namespace deleted successfully",
                     id |-> loc[w].id]))
    /\ UNCHANGED <<schemas, entries, history, loc>>
    /\ UNCHANGED left

\* ------------------------------------------------------------ schemas.py
SchemaBody(id, rows) ==
    [id |-> id, name |-> rows[id].name, structure |-> rows[id].structure,
     version |-> rows[id].version]

\* The highest version among the rows ids (existing_versions[0].version of
\* the query ordered by version descending).
MaxVersionOf(ids, rows) ==
    CHOOSE v \in {rows[i].version : i \in ids} :
        \A i \in ids : rows[i].version <= v

\* create_schema querying the versions that are not soft-deleted.
create_schema_live_versions(w) ==
    /\ Receive(w)
    /\ \E name \in SchemaNames, structure \in Structures :
        LET existing_versions ==
                {i \in Ids(schemas) :
                    schemas[i].name = name /\ schemas[i].deleted_at = NULL}
            new_version ==
                IF existing_versions # {}
                THEN MaxVersionOf(existing_versions, schemas) + 1
                ELSE 1
        IN  loc' = [loc EXCEPT ![w] =
                [op |-> "create_schema", name |-> name,
                 structure |-> structure, new_version |-> new_version,
                 dirty |-> {i \in existing_versions : schemas[i].is_active}]]
    /\ Goto(w, "create_schema_commit")
    /\ UNCHANGED store

\* create_schema: the query of the name's existing versions; new_version and
\* v.is_active = False on each loaded row (pending until the commit).
create_schema(w) ==
    /\ Receive(w)
    /\ \E name \in SchemaNames, structure \in Structures :
        LET existing_versions ==
                {i \in Ids(schemas) : schemas[i].name = name}
            new_version ==
                IF existing_versions # {}
                THEN MaxVersionOf(existing_versions, schemas) + 1
                ELSE 1
        IN  loc' = [loc EXCEPT ![w] =
                [op |-> "create_schema", name |-> name,
                 structure |-> structure, new_version |-> new_version,
                 dirty |-> {i \in existing_versions : schemas[i].is_active}]]
    /\ Goto(w, "create_schema_commit")
    /\ UNCHANGED store

\* create_schema without the loop that deactivates the previous versions.
create_schema_commit_keep_active(w) ==
    /\ pc[w] = "create_schema_commit"
    /\ LET rows == Append(schemas,
                       ConfigSchema(loc[w].name, loc[w].new_version,
                                    loc[w].structure))
       IN  IF NameVersionUnique(rows)
           THEN /\ schemas' = rows
                /\ Finish(w, Ok([id |-> Len(rows), name |-> loc[w].name,
                                 structure |-> loc[w].structure,
                                 version |-> loc[w].new_version]))
           ELSE /\ UNCHANGED schemas
                /\ Finish(w, IntegrityError)
    /\ UNCHANGED <<namespaces, entries, history, loc>>
    /\ UNCHANGED left

\* create_schema: db.add, db.commit (the pending is_active updates and the
\* insert are one transaction), db.refresh.
create_schema_commit(w) ==
    /\ pc[w] = "create_schema_commit"
    /\ LET updated ==
               [i \in Ids(schemas) |->
                   IF i \in loc[w].dirty
                   THEN [schemas[i] EXCEPT !.is_active = FALSE]
                   ELSE schemas[i]]
           rows == Append(updated,
                       ConfigSchema(loc[w].name, loc[w].new_version,
                                    loc[w].structure))
       IN  IF NameVersionUnique(rows)
           THEN /\ schemas' = rows
                /\ Finish(w, Ok(SchemaBody(Len(rows), rows)))
           ELSE /\ UNCHANGED schemas
                /\ Finish(w, IntegrityError)
    /\ UNCHANGED <<namespaces, entries, history, loc>>
    /\ UNCHANGED left

read_schemas(w) ==
    /\ Receive(w)
    /\ loc' = [loc EXCEPT ![w] = [op |-> "read_schemas"]]
    /\ Finish(w, Ok({SchemaBody(i, schemas) :
                        i \in {j \in Ids(schemas) :
                                  /\ schemas[j].deleted_at = NULL
                                  /\ schemas[j].is_active = TRUE}}))
    /\ UNCHANGED store

\* read_schema looking among the active versions only.
read_schema_active_only(w) ==
    /\ Receive(w)
    /\ \E schema_id \in 1..(Len(schemas) + 1) :
        LET schema ==
                First({i \in Ids(schemas) :
                          /\ i = schema_id
                          /\ schemas[i].deleted_at = NULL
                          /\ schemas[i].is_active})
        IN  /\ loc' = [loc EXCEPT ![w] =
                        [op |-> "read_schema", id |-> schema_id]]
            /\ IF schema = 0
               THEN Finish(w, HTTPException(404, "Schema not found"))
               ELSE Finish(w, Ok(SchemaBody(schema, schemas)))
    /\ UNCHANGED store

read_schema(w) ==
    /\ Receive(w)
    /\ \E schema_id \in 1..(Len(schemas) + 1) :
        LET schema ==
                First({i \in Ids(schemas) :
                          i = schema_id /\ schemas[i].deleted_at = NULL})
        IN  /\ loc' = [loc EXCEPT ![w] =
                        [op |-> "read_schema", id |-> schema_id]]
            /\ IF schema = 0
               THEN Finish(w, HTTPException(404, "Schema not found"))
               ELSE Finish(w, Ok(SchemaBody(schema, schemas)))
    /\ UNCHANGED store

\* delete_schema looking the schema up by id alone.
delete_schema_any(w) ==
    /\ Receive(w)
    /\ \E schema_id \in 1..(Len(schemas) + 1) :
        LET schema == First({i \in Ids(schemas) : i = schema_id})
        IN  /\ loc' = [loc EXCEPT ![w] =
                        [op |-> "delete_schema", id |-> schema_id]]
            /\ IF schema = 0
               THEN Finish(w, HTTPException(404, "Schema not found"))
               ELSE Goto(w, "delete_schema_commit")
    /\ UNCHANGED store

\* delete_schema: the lookup.
delete_schema(w) ==
    /\ Receive(w)
    /\ \E schema_id \in 1..(Len(schemas) + 1) :
        LET schema ==
                First({i \in Ids(schemas) :
                          i = schema_id /\ schemas[i].deleted_at = NULL})
        IN  /\ loc' = [loc EXCEPT ![w] =
                        [op |-> "delete_schema", id |-> schema_id]]
            /\ IF schema = 0
               THEN Finish(w, HTTPException(404, "Schema not found"))
               ELSE Goto(w, "delete_schema_commit")
    /\ UNCHANGED store

\* delete_schema making the previous version of the name active again.
delete_schema_commit_reactivate(w) ==
    /\ pc[w] = "delete_schema_commit"
    /\ schemas' =
          [i \in Ids(schemas) |->
              IF i = loc[w].id
              THEN [schemas[i] EXCEPT !.deleted_at = utcnow]
              ELSE IF /\ schemas[i].name = schemas[loc[w].id].name
                      /\ schemas[i].version + 1 = schemas[loc[w].id].version
              THEN [schemas[i] EXCEPT !.is_active = TRUE]
              ELSE schemas[i]]
    /\ Finish(w, Ok([message |-> "Schema deleted successfully",
                     id |-> loc[w].id]))
    /\ UNCHANGED <<namespaces, entries, history, loc>>
    /\ UNCHANGED left

\* delete_schema: schema.deleted_at = utcnow(), db.commit.
delete_schema_commit(w) ==
    /\ pc[w] = "delete_schema_commit"
    /\ schemas' = [schemas EXCEPT ![loc[w].id].deleted_at = utcnow]
    /\ Finish(w, Ok([message |-> "Schema deleted successfully",
                     id |-> loc[w].id]))
    /\ UNCHANGED <<namespaces, entries, history, loc>>
    /\ UNCHANGED left

\* validate_schema: validation of a value against a schema document, no store.
validate_schema(w) ==
    /\ Receive(w)
    /\ \E schema_structure \in Structures, data \in Values :
        /\ loc' = [loc EXCEPT ![w] =
                    [op |-> "validate_schema",
                     structure |-> schema_structure, value |-> data]]
        /\ Finish(w, Ok([valid |-> validate(data, schema_structure)]))
    /\ UNCHANGED store

\* ------------------------------------------------------------ configs.py
EntryBody(id, rows) ==
    [id |-> id, namespace_id |-> rows[id].namespace_id,
     schema_id |-> rows[id].schema_id, key |-> rows[id].key,
     value |-> rows[id].value, version |-> rows[id].version]

\* validate_config_value: the HTTPException it raises, NoResponse when the
\* value conforms.
validate_config_value(value, schema_structure) ==
    IF validate(value, schema_structure)
    THEN NoResponse
    ELSE HTTPException(400, "Config validation failed")

\* create_config: the namespace lookup.
create_config(w) ==
    /\ Receive(w)
    /\ \E namespace_id \in 1..(Len(namespaces) + 1),
          schema_id \in 1..(Len(schemas) + 1),
          key \in Keys, value \in Values :
        LET namespace ==
                First({i \in Ids(namespaces) : i = namespace_id})
        IN  /\ loc' = [loc EXCEPT ![w] =
                        [op |-> "create_config",
                         namespace_id |-> namespace_id,
                         schema_id |-> schema_id, key |-> key,
                         value |-> value]]
            /\ IF namespace = 0
               THEN Finish(w, HTTPException(404, "Namespace not found"))
               ELSE Goto(w, "create_config_schema")
    /\ UNCHANGED store

\* create_config: the schema lookup.
create_config_schema(w) ==
    /\ pc[w] = "create_config_schema"
    /\ LET schema == First({i \in Ids(schemas) : i = loc[w].schema_id})
       IN  IF schema = 0
           THEN /\ Finish(w, HTTPException(404, "Schema not found"))
                /\ UNCHANGED loc
           ELSE /\ Goto(w, "create_config_existing")
                /\ loc' = [loc EXCEPT ![w] =
                            [op |-> "create_config",
                             namespace_id |-> loc[w].namespace_id,
                             schema_id |-> loc[w].schema_id,
                             key |-> loc[w].key, value |-> loc[w].value,
                             structure |-> schemas[schema].structure]]
    /\ UNCHANGED store
    /\ UNCHANGED left

\* create_config validating the value before the duplicate-key lookup.
create_config_existing_validate_first(w) ==
    /\ pc[w] = "create_config_existing"
    /\ LET existing_config ==
               First({i \in Ids(entries) :
                         /\ entries[i].namespace_id = loc[w].namespace_id
                         /\ entries[i].key = loc[w].key})
           invalid == validate_config_value(loc[w].value, loc[w].structure)
       IN  IF invalid # NoResponse
           THEN Finish(w, invalid)
           ELSE IF existing_config # 0
           THEN Finish(w, HTTPException(400,
                    "Config key already exists in this namespace"))
           ELSE Goto(w, "create_config_commit")
    /\ UNCHANGED <<store, loc>>
    /\ UNCHANGED left

\* create_config: the duplicate-key lookup, then the validation.
create_config_existing(w) ==
    /\ pc[w] = "create_config_existing"
    /\ LET existing_config ==
               First({i \in Ids(entries) :
                         /\ entries[i].namespace_id = loc[w].namespace_id
                         /\ entries[i].key = loc[w].key})
           invalid == validate_config_value(loc[w].value, loc[w].structure)
       IN  IF existing_config # 0
           THEN Finish(w, HTTPException(400,
                    "Config key already exists in this namespace"))
           ELSE IF invalid # NoResponse
           THEN Finish(w, invalid)
           ELSE Goto(w, "create_config_commit")
    /\ UNCHANGED <<store, loc>>
    /\ UNCHANGED left

\* create_config: db.add(new_config), db.commit (the first transaction).
\* The commit expires new_config's attributes; only its id is kept here.
create_config_commit(w) ==
    /\ pc[w] = "create_config_commit"
    /\ LET rows == Append(entries,
                      ConfigEntry(loc[w].namespace_id, loc[w].schema_id,
                                  loc[w].key, loc[w].value))
       IN  IF NamespaceKeyUnique(rows)
           THEN /\ entries' = rows
                /\ loc' = [loc EXCEPT ![w] =
                            [op |-> "create_config",
                             namespace_id |-> loc[w].namespace_id,
                             schema_id |-> loc[w].schema_id,
                             key |-> loc[w].key, value |-> loc[w].value,
                             new_config |-> [id |-> Len(rows)]]]
                /\ Goto(w, "create_config_refresh")
           ELSE /\ UNCHANGED <<entries, loc>>
                /\ Finish(w, IntegrityError)
    /\ UNCHANGED <<namespaces, schemas, history>>
    /\ UNCHANGED left

\* create_config: db.refresh(new_config) reloads the row.
create_config_refresh(w) ==
    /\ pc[w] = "create_config_refresh"
    /\ LET id == loc[w].new_config.id
       IN  loc' = [loc EXCEPT ![w].new_config =
                    [id |-> id, value |-> entries[id].value,
                     version |-> entries[id].version]]
    /\ Goto(w, "create_config_history")
    /\ UNCHANGED store
    /\ UNCHANGED left

\* create_config: db.add(history), db.commit (the second transaction); the
\* response is the row as the commit leaves it.
create_config_history(w) ==
    /\ pc[w] = "create_config_history"
    /\ history' = Append(history,
                      ConfigHistory(loc[w].new_config.id,
                                    loc[w].new_config.value,
                                    loc[w].new_config.version))
    /\ Finish(w, Ok(EntryBody(loc[w].new_config.id, entries)))
    /\ UNCHANGED <<namespaces, schemas, entries, loc>>
    /\ UNCHANGED left

read_configs(w) ==
    /\ Receive(w)
    /\ \E namespace_id \in 0..(Len(namespaces) + 1) :
        /\ loc' = [loc EXCEPT ![w] =
                    [op |-> "read_configs", namespace_id |-> namespace_id]]
        /\ Finish(w, Ok({EntryBody(i, entries) :
                i \in {j \in Ids(entries) :
                          /\ entries[j].deleted_at = NULL
                          /\ (namespace_id # 0 =>
                                entries[j].namespace_id = namespace_id)}}))
    /\ UNCHANGED store

\* read_config stamping the row it returns (its version moves).
read_config_stamping(w) ==
    /\ Receive(w)
    /\ \E config_id \in 1..(Len(entries) + 1) :
        LET config ==
                First({i \in Ids(entries) :
                          i = config_id /\ entries[i].deleted_at = NULL})
        IN  /\ loc' = [loc EXCEPT ![w] =
                        [op |-> "read_config", id |-> config_id]]
            /\ IF config = 0
               THEN /\ Finish(w, HTTPException(404, "Config not found"))
                    /\ UNCHANGED entries
               ELSE /\ Finish(w, Ok(EntryBody(config, entries)))
                    /\ entries' = [entries EXCEPT ![config].version = @ + 1]
    /\ UNCHANGED <<namespaces, schemas, history>>

read_config(w) ==
    /\ Receive(w)
    /\ \E config_id \in 1..(Len(entries) + 1) :
        LET config ==
                First({i \in Ids(entries) :
                          i = config_id /\ entries[i].deleted_at = NULL})
        IN  /\ loc' = [loc EXCEPT ![w] =
                        [op |-> "read_config", id |-> config_id]]
            /\ IF config = 0
               THEN Finish(w, HTTPException(404, "Config not found"))
               ELSE Finish(w, Ok(EntryBody(config, entries)))
    /\ UNCHANGED store

\* update_config looking the entry up by id alone.
update_config_any(w) ==
    /\ Receive(w)
    /\ \E config_id \in 1..(Len(entries) + 1), value \in Values :
        LET db_config == First({i \in Ids(entries) : i = config_id})
        IN  IF db_config = 0
            THEN /\ loc' = [loc EXCEPT ![w] =
                            [op |-> "update_config", id |-> config_id,
                             new_value |-> value]]
                 /\ Finish(w, HTTPException(404, "Config not found"))
            ELSE /\ loc' = [loc EXCEPT ![w] =
                            [op |-> "update_config", id |-> config_id,
                             new_value |-> value,
                             value |-> entries[db_config].value,
                             version |-> entries[db_config].version,
                             schema_id |-> entries[db_config].schema_id]]
                 /\ Goto(w, "update_config_schema")
    /\ UNCHANGED store

\* update_config: the entry lookup; db_config keeps the loaded columns.
update_config(w) ==
    /\ Receive(w)
    /\ \E config_id \in 1..(Len(entries) + 1), value \in Values :
        LET db_config ==
                First({i \in Ids(entries) :
                          i = config_id /\ entries[i].deleted_at = NULL})
        IN  IF db_config = 0
            THEN /\ loc' = [loc EXCEPT ![w] =
                            [op |-> "update_config", id |-> config_id,
                             new_value |-> value]]
                 /\ Finish(w, HTTPException(404, "Config not found"))
            ELSE /\ loc' = [loc EXCEPT ![w] =
                            [op |-> "update_config", id |-> config_id,
                             new_value |-> value,
                             value |-> entries[db_config].value,
                             version |-> entries[db_config].version,
                             schema_id |-> entries[db_config].schema_id]]
                 /\ Goto(w, "update_config_schema")
    /\ UNCHANGED store

\* update_config assigning and committing the value before it validates.
update_config_schema_write_first(w) ==
    /\ pc[w] = "update_config_schema"
    /\ LET schema == First({i \in Ids(schemas) : i = loc[w].schema_id})
           invalid ==
               validate_config_value(loc[w].new_value,
                                     schemas[schema].structure)
       IN  IF invalid # NoResponse
           THEN /\ entries' = [entries EXCEPT
                                ![loc[w].id].value = loc[w].new_value]
                /\ Finish(w, invalid)
           ELSE /\ UNCHANGED entries
                /\ Goto(w, "update_config_commit")
    /\ UNCHANGED <<namespaces, schemas, history, loc>>
    /\ UNCHANGED left

\* update_config validating against the newest version of the schema's name.
update_config_schema_latest(w) ==
    /\ pc[w] = "update_config_schema"
    /\ LET schema == First({i \in Ids(schemas) : i = loc[w].schema_id})
           latest ==
               CHOOSE i \in Ids(schemas) :
                   /\ schemas[i].name = schemas[schema].name
                   /\ \A j \in Ids(schemas) :
                        schemas[j].name = schemas[schema].name
                            => schemas[j].version <= schemas[i].version
           invalid ==
               validate_config_value(loc[w].new_value,
                                     schemas[latest].structure)
       IN  IF invalid # NoResponse
           THEN Finish(w, invalid)
           ELSE Goto(w, "update_config_commit")
    /\ UNCHANGED <<store, loc>>
    /\ UNCHANGED left

\* update_config looking up the entry's schema among the non-deleted ones;
\* schema.structure of None is an AttributeError no handler catches.
update_config_schema_live(w) ==
    /\ pc[w] = "update_config_schema"
    /\ LET schema ==
               First({i \in Ids(schemas) :
                         i = loc[w].schema_id /\ schemas[i].deleted_at = NULL})
       IN  IF schema = 0
           THEN Finish(w, [status |-> 500, detail |-> "AttributeError",
                           body |-> <<>>])
           ELSE IF validate_config_value(loc[w].new_value,
                                         schemas[schema].structure)
                    # NoResponse
           THEN Finish(w, validate_config_value(loc[w].new_value,
                                                schemas[schema].structure))
           ELSE Goto(w, "update_config_commit")
    /\ UNCHANGED <<store, loc>>
    /\ UNCHANGED left

\* update_config: the lookup of the entry's schema, then the validation.
update_config_schema(w) ==
    /\ pc[w] = "update_config_schema"
    /\ LET schema == First({i \in Ids(schemas) : i = loc[w].schema_id})
           invalid ==
               validate_config_value(loc[w].new_value,
                                     schemas[schema].structure)
       IN  IF invalid # NoResponse
           THEN Finish(w, invalid)
           ELSE Goto(w, "update_config_commit")
    /\ UNCHANGED <<store, loc>>
    /\ UNCHANGED left

\* The flush that misses the assignment of the JSON column.
FlushEntry_keep_value(row, loaded) ==
    [row EXCEPT !.version = loaded.version + 1]

\* The flush with the version left as loaded.
FlushEntry_no_increment(row, loaded) ==
    [row EXCEPT !.value = loaded.new_value]

\* The UPDATE the flush emits for db_config: the columns whose value differs
\* from the loaded one, that is version and, when the payload differs, value.
FlushEntry(row, loaded) ==
    [row EXCEPT
        !.value = IF loaded.new_value # loaded.value
                  THEN loaded.new_value ELSE @,
        !.version = loaded.version + 1]

\* update_config whose UPDATE is not restricted to the entry's id.
update_config_commit_all_rows(w) ==
    /\ pc[w] = "update_config_commit"
    /\ entries' = [i \in Ids(entries) |-> FlushEntry(entries[i], loc[w])]
    /\ history' = Append(history,
                      ConfigHistory(loc[w].id, loc[w].new_value,
                                    loc[w].version + 1))
    /\ Goto(w, "update_config_refresh")
    /\ UNCHANGED <<namespaces, schemas, loc>>
    /\ UNCHANGED left

\* update_config: db_config.value, db_config.version += 1, db.add(history),
\* db.commit (one transaction).
update_config_commit(w) ==
    /\ pc[w] = "update_config_commit"
    /\ entries' = [entries EXCEPT ![loc[w].id] = FlushEntry(@, loc[w])]
    /\ history' = Append(history,
                      ConfigHistory(loc[w].id, loc[w].new_value,
                                    loc[w].version + 1))
    /\ Goto(w, "update_config_refresh")
    /\ UNCHANGED <<namespaces, schemas, loc>>
    /\ UNCHANGED left

\* update_config: db.refresh(db_config), return db_config.
update_config_refresh(w) ==
    /\ pc[w] = "update_config_refresh"
    /\ Finish(w, Ok(EntryBody(loc[w].id, entries)))
    /\ UNCHANGED <<store, loc>>
    /\ UNCHANGED left

\* delete_config looking the entry up by id alone.
delete_config_any(w) ==
    /\ Receive(w)
    /\ \E config_id \in 1..(Len(entries) + 1) :
        LET config == First({i \in Ids(entries) : i = config_id})
        IN  /\ loc' = [loc EXCEPT ![w] =
                        [op |-> "delete_config", id |-> config_id]]
            /\ IF config = 0
               THEN Finish(w, HTTPException(404, "Config not found"))
               ELSE Goto(w, "delete_config_commit")
    /\ UNCHANGED store

\* delete_config: the lookup.
delete_config(w) ==
    /\ Receive(w)
    /\ \E config_id \in 1..(Len(entries) + 1) :
        LET config ==
                First({i \in Ids(entries) :
                          i = config_id /\ entries[i].deleted_at = NULL})
        IN  /\ loc' = [loc EXCEPT ![w] =
                        [op |-> "delete_config", id |-> config_id]]
            /\ IF config = 0
               THEN Finish(w, HTTPException(404, "Config not found"))
               ELSE Goto(w, "delete_config_commit")
    /\ UNCHANGED store

\* delete_config deleting the entry's history records along with it.
delete_config_commit_cascade(w) ==
    /\ pc[w] = "delete_config_commit"
    /\ entries' = [entries EXCEPT ![loc[w].id].deleted_at = utcnow]
    /\ history' = SelectSeq(history, LAMBDA h : h.config_id # loc[w].id)
    /\ Finish(w, Ok([message |-> "Configuration deleted successfully",
                     id |-> loc[w].id]))
    /\ UNCHANGED <<namespaces, schemas, loc>>
    /\ UNCHANGED left

\* delete_config: config.deleted_at = utcnow(), db.commit.
delete_config_commit(w) ==
    /\ pc[w] = "delete_config_commit"
    /\ entries' = [entries EXCEPT ![loc[w].id].deleted_at = utcnow]
    /\ Finish(w, Ok([message |-> "Configuration deleted successfully",
                     id |-> loc[w].id]))
    /\ UNCHANGED <<namespaces, schemas, history, loc>>
    /\ UNCHANGED left

\* ------------------------------------------------------------ keyvault.py
\* KeyVaultClient(): client is None when AZURE_KEY_VAULT_URL or the Azure
\* SDK is missing, else a SecretClient; secrets is what the vault behind
\* the SecretClient holds.
KeyVaultClients ==
    {[client |-> NULL, secrets |-> <<>>],
     [client |-> "SecretClient",
      secrets |-> [name \in {"db-pw"} |-> "s3cr3t"]]}

Raise(e) == [raised |-> TRUE, e |-> e]
Returned(value) == [raised |-> FALSE, value |-> value]

\* KeyVaultClient.get_secret
get_secret(self, name) ==
    IF self.client = NULL
    THEN Raise("Azure Key Vault not configured. Cannot resolve vault://"
               \o name \o ". Set AZURE_KEY_VAULT_URL environment variable "
               \o "and ensure Azure credentials are available.")
    ELSE IF name \in DOMAIN self.secrets
    THEN Returned(self.secrets[name])
    ELSE Raise("Failed to retrieve secret '" \o name
               \o "' from Key Vault: SecretNotFound")

vault_prefix == <<"v", "a", "u", "l", "t", ":", "/", "/">>

\* re.match(r'^vault://(.+)$', s): group 1, <<>> when there is no match.
\* "." takes no newline and "$" also matches before a final newline.
vault_match(chars) ==
    LET n == Len(vault_prefix)
        rest == SubSeq(chars, n + 1, Len(chars))
        body == IF rest # <<>> /\ rest[Len(rest)] = "\n"
                THEN SubSeq(rest, 1, Len(rest) - 1) ELSE rest
    IN  IF /\ Len(chars) > n
           /\ SubSeq(chars, 1, n) = vault_prefix
           /\ body # <<>>
           /\ \A i \in 1..Len(body) : body[i] # "\n"
        THEN body ELSE <<>>

\* resolve_secrets with "except: return config_value".
RECURSIVE resolve_secrets_keep_reference(_, _)
resolve_secrets_keep_reference(config_value, kv_client) ==
    CASE isinstance(config_value, "dict") ->
            JDict([i \in 1..Len(config_value.v) |->
                    <<config_value.v[i][1],
                      resolve_secrets_keep_reference(config_value.v[i][2],
                                                     kv_client)>>])
      [] isinstance(config_value, "list") ->
            JList([i \in 1..Len(config_value.v) |->
                    resolve_secrets_keep_reference(config_value.v[i],
                                                   kv_client)])
      [] isinstance(config_value, "str") ->
            LET secret_name == vault_match(Chars(config_value.v))
                secret == get_secret(kv_client, Text(secret_name))
            IN  IF secret_name = <<>> \/ secret.raised THEN config_value
                ELSE JStr(secret.value)
      [] OTHER -> config_value

\* resolve_secrets with the prefix optional in the pattern:
\* r'^(?:vault://)?(.+)$'.
RECURSIVE resolve_secrets_any_name(_, _)
resolve_secrets_any_name(config_value, kv_client) ==
    CASE isinstance(config_value, "dict") ->
            JDict([i \in 1..Len(config_value.v) |->
                    <<config_value.v[i][1],
                      resolve_secrets_any_name(config_value.v[i][2],
                                               kv_client)>>])
      [] isinstance(config_value, "list") ->
            JList([i \in 1..Len(config_value.v) |->
                    resolve_secrets_any_name(config_value.v[i], kv_client)])
      [] isinstance(config_value, "str") ->
            LET chars == Chars(config_value.v)
                secret_name ==
                    IF vault_match(chars) # <<>> THEN vault_match(chars)
                    ELSE vault_match(vault_prefix \o chars)
                secret ==
                    IF Text(secret_name) \in DOMAIN kv_client.secrets
                    THEN Returned(kv_client.secrets[Text(secret_name)])
                    ELSE Raise("SecretNotFound")
            IN  IF secret_name = <<>> THEN config_value
                ELSE IF secret.raised
                THEN JStr("[ERROR: " \o secret.e \o "]")
                ELSE JStr(secret.value)
      [] OTHER -> config_value

RECURSIVE resolve_secrets(_, _)
resolve_secrets(config_value, kv_client) ==
    CASE isinstance(config_value, "dict") ->
            JDict([i \in 1..Len(config_value.v) |->
                    <<config_value.v[i][1],
                      resolve_secrets(config_value.v[i][2], kv_client)>>])
      [] isinstance(config_value, "list") ->
            JList([i \in 1..Len(config_value.v) |->
                    resolve_secrets(config_value.v[i], kv_client)])
      [] isinstance(config_value, "str") ->
            LET secret_name == vault_match(Chars(config_value.v))
                secret == get_secret(kv_client, Text(secret_name))
            IN  IF secret_name = <<>> THEN config_value
                ELSE IF secret.raised
                THEN JStr("[ERROR: " \o secret.e \o "]")
                ELSE JStr(secret.value)
      [] OTHER -> config_value

\* has_vault_references
has_vault_references(config_value) ==
    Contains(dumps(config_value), vault_prefix)

\* ------------------------------------------------------------ reference_data.py
\* The inputs of the lookup and search routes.
LookupIds == {"UC001", "1", "UC999", "None"}
IdFields == {"usecase_id", "id"}
Queries == {"PIE", "onboarding", "5432", "zzz", "pie\", \"banana"}

\* get_reference_data: the namespace lookup by name.
get_reference_data(w) ==
    /\ Receive(w)
    /\ \E namespace \in NsNames, key \in Keys, resolve_vault \in BOOLEAN :
        LET ns == First({i \in Ids(namespaces) :
                            namespaces[i].name = namespace})
        IN  /\ loc' = [loc EXCEPT ![w] =
                        [op |-> "get_reference_data",
                         namespace |-> namespace, key |-> key,
                         resolve_vault |-> resolve_vault, ns |-> ns]]
            /\ IF ns = 0
               THEN Finish(w, HTTPException(404, "Namespace not found"))
               ELSE Goto(w, "get_reference_data_config")
    /\ UNCHANGED store

\* The response of get_reference_data for the entry config and the value
\* to return.
ReferenceData(w, config, value) ==
    Ok([namespace |-> loc[w].namespace, key |-> loc[w].key,
        value |-> value, version |-> entries[config].version])

\* get_reference_data: the entry lookup by key, resolve_secrets with the
\* KeyVaultClient it builds when resolve_vault is set, and the response.
get_reference_data_config(w) ==
    /\ pc[w] = "get_reference_data_config"
    /\ LET config ==
               First({i \in Ids(entries) :
                         /\ entries[i].namespace_id = loc[w].ns
                         /\ entries[i].key = loc[w].key})
       IN  IF config = 0
           THEN /\ Finish(w, HTTPException(404, "Config not found"))
                /\ UNCHANGED loc
           ELSE IF loc[w].resolve_vault
           THEN \E kv_client \in KeyVaultClients :
                /\ loc' = [loc EXCEPT ![w] =
                            [op |-> "get_reference_data",
                             namespace |-> loc[w].namespace,
                             key |-> loc[w].key,
                             resolve_vault |-> TRUE, ns |-> loc[w].ns,
                             kv_client |-> kv_client]]
                /\ Finish(w, ReferenceData(w, config,
                        resolve_secrets(entries[config].value, kv_client)))
           ELSE /\ Finish(w, ReferenceData(w, config, entries[config].value))
                /\ UNCHANGED loc
    /\ UNCHANGED store
    /\ UNCHANGED left

\* lookup_item_in_array: the namespace lookup by name.
lookup_item_in_array(w) ==
    /\ Receive(w)
    /\ \E namespace \in NsNames, key \in Keys, id \in LookupIds,
          id_field \in IdFields :
        LET ns == First({i \in Ids(namespaces) :
                            namespaces[i].name = namespace})
        IN  /\ loc' = [loc EXCEPT ![w] =
                        [op |-> "lookup_item_in_array",
                         namespace |-> namespace, key |-> key, id |-> id,
                         id_field |-> id_field, ns |-> ns]]
            /\ IF ns = 0
               THEN Finish(w, HTTPException(404, "Namespace not found"))
               ELSE Goto(w, "lookup_item_in_array_config")
    /\ UNCHANGED store

\* MatchingItems comparing without str(): item.get(id_field) == id.
MatchingItems_no_coercion(value, id_field, id) ==
    {i \in 1..Len(value.v) :
        /\ isinstance(value.v[i], "dict")
        /\ isinstance(get(value.v[i], id_field), "str")
        /\ get(value.v[i], id_field).v = id}

\* The positions of the items of an array that the scan of
\* lookup_item_in_array matches.
MatchingItems(value, id_field, id) ==
    {i \in 1..Len(value.v) :
        /\ isinstance(value.v[i], "dict")
        /\ str(get(value.v[i], id_field)) = Chars(id)}

\* lookup_item_in_array_config without the array check: the scan of a
\* value that is not a list meets no dict.
lookup_item_in_array_config_no_type_check(w) ==
    /\ pc[w] = "lookup_item_in_array_config"
    /\ LET config ==
               First({i \in Ids(entries) :
                         /\ entries[i].namespace_id = loc[w].ns
                         /\ entries[i].key = loc[w].key})
           value == entries[config].value
           found == MatchingItems(value, loc[w].id_field, loc[w].id)
       IN  IF config = 0
           THEN Finish(w, HTTPException(404, "Config not found"))
           ELSE IF isinstance(value, "list") /\ found # {}
           THEN Finish(w, Ok(value.v[First(found)]))
           ELSE Finish(w, HTTPException(404, "Item not found"))
    /\ UNCHANGED <<store, loc>>
    /\ UNCHANGED left

\* lookup_item_in_array: the entry lookup by key, the array check and the
\* scan for the first matching item.
lookup_item_in_array_config(w) ==
    /\ pc[w] = "lookup_item_in_array_config"
    /\ LET config ==
               First({i \in Ids(entries) :
                         /\ entries[i].namespace_id = loc[w].ns
                         /\ entries[i].key = loc[w].key})
           value == entries[config].value
           found == MatchingItems(value, loc[w].id_field, loc[w].id)
       IN  IF config = 0
           THEN Finish(w, HTTPException(404, "Config not found"))
           ELSE IF ~isinstance(value, "list")
           THEN Finish(w, HTTPException(400, "Config is not an array type"))
           ELSE IF found # {}
           THEN Finish(w, Ok(value.v[First(found)]))
           ELSE Finish(w, HTTPException(404, "Item not found"))
    /\ UNCHANGED <<store, loc>>
    /\ UNCHANGED left

\* search_in_config: the namespace lookup by name.
search_in_config(w) ==
    /\ Receive(w)
    /\ \E namespace \in NsNames, key \in Keys, q \in Queries :
        LET ns == First({i \in Ids(namespaces) :
                            namespaces[i].name = namespace})
        IN  /\ loc' = [loc EXCEPT ![w] =
                        [op |-> "search_in_config",
                         namespace |-> namespace, key |-> key, q |-> q,
                         ns |-> ns]]
            /\ IF ns = 0
               THEN Finish(w, HTTPException(404, "Namespace not found"))
               ELSE Goto(w, "search_in_config_config")
    /\ UNCHANGED store

\* The response of search_in_config.
SearchResults(results, q) ==
    Ok([results |-> results, count |-> Len(results), query |-> q])

\* search_in_config_config comparing the query as it was typed:
\* q in config_str.
search_in_config_config_case_sensitive(w) ==
    /\ pc[w] = "search_in_config_config"
    /\ LET config ==
               First({i \in Ids(entries) :
                         /\ entries[i].namespace_id = loc[w].ns
                         /\ entries[i].key = loc[w].key})
           value == entries[config].value
           q == Chars(loc[w].q)
       IN  IF config = 0
           THEN Finish(w, HTTPException(404, "Config not found"))
           ELSE IF Contains(lower(dumps(value)), q)
           THEN IF isinstance(value, "list")
                THEN Finish(w, SearchResults(
                        SelectSeq(value.v,
                            LAMBDA item : Contains(lower(dumps(item)), q)),
                        loc[w].q))
                ELSE Finish(w, SearchResults(<<value>>, loc[w].q))
           ELSE Finish(w, SearchResults(<<>>, loc[w].q))
    /\ UNCHANGED <<store, loc>>
    /\ UNCHANGED left

\* search_in_config: the entry lookup by key and the search of the lowered
\* query in the lowered json.dumps of the value and of each item.
search_in_config_config(w) ==
    /\ pc[w] = "search_in_config_config"
    /\ LET config ==
               First({i \in Ids(entries) :
                         /\ entries[i].namespace_id = loc[w].ns
                         /\ entries[i].key = loc[w].key})
           value == entries[config].value
           q_lower == lower(Chars(loc[w].q))
       IN  IF config = 0
           THEN Finish(w, HTTPException(404, "Config not found"))
           ELSE IF Contains(lower(dumps(value)), q_lower)
           THEN IF isinstance(value, "list")
                THEN Finish(w, SearchResults(
                        SelectSeq(value.v,
                            LAMBDA item :
                                Contains(lower(dumps(item)), q_lower)),
                        loc[w].q))
                ELSE Finish(w, SearchResults(<<value>>, loc[w].q))
           ELSE Finish(w, SearchResults(<<>>, loc[w].q))
    /\ UNCHANGED <<store, loc>>
    /\ UNCHANGED left

\* The handler returns: the session closes, the worker takes the next request.
Return(w) ==
    /\ pc[w] = "done"
    /\ pc' = [pc EXCEPT ![w] = "idle"]
    /\ loc' = [loc EXCEPT ![w] = Idle]
    /\ res' = [res EXCEPT ![w] = NoResponse]
    /\ UNCHANGED store
    /\ UNCHANGED left

\* The handlers that write the store.
Write(w) ==
    \/ create_namespace(w)
    \/ create_namespace_commit(w)
    \/ delete_namespace(w)
    \/ delete_namespace_commit(w)
    \/ create_schema(w)
    \/ create_schema_commit(w)
    \/ delete_schema(w)
    \/ delete_schema_commit(w)
    \/ create_config(w)
    \/ create_config_schema(w)
    \/ create_config_existing(w)
    \/ create_config_commit(w)
    \/ create_config_refresh(w)
    \/ create_config_history(w)
    \/ update_config(w)
    \/ update_config_schema(w)
    \/ update_config_commit(w)
    \/ update_config_refresh(w)
    \/ delete_config(w)
    \/ delete_config_commit(w)
    \/ Return(w)

\* The handlers that only read.
Read(w) ==
    \/ read_namespaces(w)
    \/ read_namespace(w)
    \/ read_schemas(w)
    \/ read_schema(w)
    \/ validate_schema(w)
    \/ read_configs(w)
    \/ read_config(w)
    \/ get_reference_data(w)
    \/ get_reference_data_config(w)

\* One client: requests arrive one after the other.
Next == \E w \in {1} : Write(w) \/ Read(w)

Spec == Init /\ [][Next]_vars

\* The empty store, or the store once a first client has created the
\* namespace "global" and version 1 of "TestSchema".
ConcInit ==
    /\ \/ /\ namespaces = <<>>
          /\ schemas = <<>>
       \/ /\ namespaces = <<Namespace("global")>>
          /\ schemas = <<ConfigSchema("TestSchema", 1, [port |-> "integer"])>>
    /\ entries = <<>>
    /\ history = <<>>
    /\ pc = [w \in Workers |-> "idle"]
    /\ loc = [w \in Workers |-> Idle]
    /\ res = [w \in Workers |-> NoResponse]
    /\ left = MaxConcRequests

\* Two clients: the statements of their write requests interleave.
ConcNext == \E w \in Workers : Write(w)

ConcSpec == ConcInit /\ [][ConcNext]_vars

\* The lookup and search routes of reference_data.py.
Lookup(w) ==
    \/ lookup_item_in_array(w)
    \/ lookup_item_in_array_config(w)
    \/ search_in_config(w)
    \/ search_in_config_config(w)

\* Documents of the reference routes: {"password": "vault://db-pw",
\* "port": 5432}, [{"usecase_id": "UC001", "name": "Onboarding"},
\* {"usecase_id": 1, "name": "vault://missing"}] and
\* ["apple pie", "banana split"].
SecretDoc ==
    JDict(<<<<"password", JStr("vault://db-pw")>>, <<"port", JInt(5432)>>>>)
UseCaseDoc ==
    JList(<<JDict(<<<<"usecase_id", JStr("UC001")>>,
                    <<"name", JStr("Onboarding")>>>>),
            JDict(<<<<"usecase_id", JInt(1)>>,
                    <<"name", JStr("vault://missing")>>>>)>>)
FruitDoc == JList(<<JStr("apple pie"), JStr("banana split")>>)

\* The empty store, or the store once a client has created the namespace
\* "global", an object schema and an array schema, and under them the
\* entries "db_config" and "usecases".
ReadInit ==
    /\ \/ /\ namespaces = <<>>
          /\ schemas = <<>>
          /\ entries = <<>>
          /\ history = <<>>
       \/ \E d \in {JDict(<<<<"port", JInt(5432)>>>>), SecretDoc},
             u \in {UseCaseDoc, FruitDoc} :
          /\ namespaces = <<Namespace("global")>>
          /\ schemas = <<ConfigSchema("TestSchema", 1, [port |-> "integer"]),
                         ConfigSchema("UseCases", 1, [type |-> "array"])>>
          /\ entries = <<ConfigEntry(1, 1, "db_config", d),
                         ConfigEntry(1, 2, "usecases", u)>>
          /\ history = <<ConfigHistory(1, d, 1), ConfigHistory(2, u, 1)>>
    /\ pc = [w \in Workers |-> "idle"]
    /\ loc = [w \in Workers |-> Idle]
    /\ res = [w \in Workers |-> NoResponse]
    /\ left = MaxReads

\* Two clients that only read.
ReadNext == \E w \in Workers : Read(w) \/ Lookup(w) \/ Return(w)

ReadSpec == ReadInit /\ [][ReadNext]_vars

\* More documents:
\* {"password": "vault://db-pw", "replicas": [{"password":
\* "vault://missing"}, "vault://db-pw", 5432, null]},
\* {"note": "see vault://db-pw", "vault://db-pw": "db-pw", "password":
\* "vault://"}, {"password": "vault://db-pw\n"} and [{"id": 1, "name":
\* "apple pie"}, {"id": "1", "name": "banana split"}, {"name": "None"}].
NestedDoc ==
    JDict(<<<<"password", JStr("vault://db-pw")>>,
            <<"replicas",
              JList(<<JDict(<<<<"password", JStr("vault://missing")>>>>),
                      JStr("vault://db-pw"), JInt(5432), JNone>>)>>>>)
NoteDoc ==
    JDict(<<<<"note", JStr("see vault://db-pw")>>,
            <<"vault://db-pw", JStr("db-pw")>>,
            <<"password", JStr("vault://")>>>>)
LineBreakDoc == JDict(<<<<"password", JStr("vault://db-pw\n")>>>>)
DuplicateIdDoc ==
    JList(<<JDict(<<<<"id", JInt(1)>>, <<"name", JStr("apple pie")>>>>),
            JDict(<<<<"id", JStr("1")>>, <<"name", JStr("banana split")>>>>),
            JDict(<<<<"name", JStr("None")>>>>)>>)

\* ["UC001", {"usecase_id": "UC001"}]
MixedArrayDoc ==
    JList(<<JStr("UC001"), JDict(<<<<"usecase_id", JStr("UC001")>>>>)>>)

\* The documents the reference functions are applied to.
Documents ==
    <<JDict(<<<<"port", JInt(5432)>>>>), SecretDoc, NestedDoc, NoteDoc,
      LineBreakDoc, JStr("vault://missing"), JStr("Onboarding"),
      UseCaseDoc, FruitDoc, DuplicateIdDoc, MixedArrayDoc>>

\* A call of has_vault_references on a document (the routers do not call
\* it).
has_vault_references_call(w) ==
    /\ pc[w] = "idle"
    /\ \E d \in DOMAIN Documents :
        LET config_value == Documents[d]
        IN  /\ loc' = [loc EXCEPT ![w] =
                        [op |-> "has_vault_references",
                         config_value |-> config_value]]
            /\ Finish(w, Returned(has_vault_references(config_value)))
    /\ UNCHANGED store
    /\ UNCHANGED left

\* The store once a client has created the namespace "global", the schema
\* {} that every document satisfies, and under them one entry holding a
\* document.
RefInit ==
    /\ \E key \in Keys, d \in DOMAIN Documents :
        /\ namespaces = <<Namespace("global")>>
        /\ schemas = <<ConfigSchema("AnyDocument", 1, <<>>)>>
        /\ entries = <<ConfigEntry(1, 1, key, Documents[d])>>
        /\ history = <<ConfigHistory(1, Documents[d], 1)>>
    /\ pc = [w \in Workers |-> "idle"]
    /\ loc = [w \in Workers |-> Idle]
    /\ res = [w \in Workers |-> NoResponse]
    /\ left = MaxReads

\* One client of the reference routes and of has_vault_references.
RefNext ==
    \E w \in {1} :
        \/ get_reference_data(w)
        \/ get_reference_data_config(w)
        \/ Lookup(w)
        \/ has_vault_references_call(w)
        \/ Return(w)

RefSpec == RefInit /\ [][RefNext]_vars

\* ------------------------------------------------------------ vocabulary
NotFound(r) == r.status = 404
Conflict(r) ==
    /\ r.status = 400
    /\ r.detail \in {"Config key already exists in this namespace",
                     "Namespace already exists"}
ValidationFailed(r) ==
    r.status = 400 /\ r.detail = "Config validation failed"

\* The history records of entry id, in insertion order.
HistoryIn(rows, id) == SelectSeq(rows, LAMBDA h : h.config_id = id)
HistoryOf(id) == HistoryIn(history, id)

Done(w, op) == pc[w] = "done" /\ loc[w].op = op
Accepted(w, op) == Done(w, op) /\ res[w].status = 200

\* ------------------------------------------------------------ C1
\* The history of every entry whose creation has completed holds the
\* versions 1, 2, ..., n in this order, n being the entry's version, and its
\* last record holds the entry's value.
LedgerMatchesVersion ==
    \A id \in Ids(entries) :
        (\A w \in Workers :
            ~(/\ pc[w] \in {"create_config_refresh", "create_config_history"}
              /\ loc[w].new_config.id = id))
        => LET h == HistoryOf(id)
           IN  /\ Len(h) = entries[id].version
               /\ \A k \in 1..Len(h) : h[k].version = k
               /\ h[Len(h)].value = entries[id].value

\* An accepted createConfig answers version 1 and leaves a history of the one
\* record (request value, 1).
CreateYieldsVersionOne(w) ==
    (pc[w] = "create_config_history" /\ pc'[w] = "done")
    => /\ res'[w].status = 200
       /\ res'[w].body.version = 1
       /\ res'[w].body.value = loc[w].value
       /\ HistoryOf(loc[w].new_config.id)' =
            <<ConfigHistory(loc[w].new_config.id, loc[w].value, 1)>>

\* An accepted updateConfig on an entry at version n raises it to n + 1 and
\* appends the record (payload, n + 1) to the entry's history, whose earlier
\* records stay as they are.
UpdateAppendsNextVersion(w) ==
    (pc[w] = "update_config_commit" /\ pc'[w] # pc[w])
    => LET id == loc[w].id
           n == entries[id].version
       IN  /\ entries'[id].version = n + 1
           /\ entries'[id].value = loc[w].new_value
           /\ HistoryOf(id)' =
                Append(HistoryOf(id),
                       ConfigHistory(id, loc[w].new_value, n + 1))

\* C1: createConfig with a conforming value yields version 1 and a history
\* of length 1, and N successive accepted updateConfig calls then yield
\* version 1+N and a history of length 1+N in ascending version order whose
\* record of version 1+k holds the payload of the k-th update.
C1_VersionsAndLedger ==
    /\ []LedgerMatchesVersion
    /\ [][\A w \in Workers :
            CreateYieldsVersionOne(w) /\ UpdateAppendsNextVersion(w)]_vars

\* An entry created with one value and updated twice, the second update's
\* response in hand.
C1_Witness ==
    /\ Accepted(1, "update_config")
    /\ res[1].body.version = 3
    /\ Len(HistoryOf(loc[1].id)) = 3
    /\ HistoryOf(loc[1].id)[2].value # HistoryOf(loc[1].id)[3].value

\* ------------------------------------------------------------ C2
\* C2: two concurrent updateConfig calls that both read the entry at version
\* v and are both accepted leave it at version v + 2, with one history
\* record of version v + 1 and one of version v + 2.
C2_NoLostUpdate ==
    \A w1, w2 \in Workers :
        (/\ w1 # w2
         /\ Accepted(w1, "update_config")
         /\ Accepted(w2, "update_config")
         /\ loc[w1].id = loc[w2].id
         /\ loc[w1].version = loc[w2].version)
        => LET id == loc[w1].id
               v == loc[w1].version
               h == HistoryOf(id)
           IN  /\ entries[id].version = v + 2
               /\ Cardinality({k \in 1..Len(h) : h[k].version = v + 1}) = 1
               /\ Cardinality({k \in 1..Len(h) : h[k].version = v + 2}) = 1

\* ------------------------------------------------------------ C3
\* C3: of two createConfig calls for the same (namespace, key) that both
\* pass the namespace and schema checks with valid values, one returns the
\* entry and the other fails with Conflict.
C3_OneSuccessOneConflict ==
    \A w1, w2 \in Workers :
        (/\ w1 # w2
         /\ Done(w1, "create_config")
         /\ Done(w2, "create_config")
         /\ loc[w1].namespace_id = loc[w2].namespace_id
         /\ loc[w1].key = loc[w2].key
         /\ \A w \in {w1, w2} :
                ~NotFound(res[w]) /\ ~ValidationFailed(res[w]))
        => \/ res[w1].status = 200 /\ Conflict(res[w2])
           \/ res[w2].status = 200 /\ Conflict(res[w1])

\* ------------------------------------------------------------ C4
\* C4: every entry has a history record of version 1 and every history
\* record belongs to an entry, in every reachable state.
C4_EntryAndHistoryTogether ==
    /\ \A id \in Ids(entries) :
        \E k \in 1..Len(history) :
            history[k].config_id = id /\ history[k].version = 1
    /\ \A k \in 1..Len(history) : history[k].config_id \in Ids(entries)

\* ------------------------------------------------------------ C5
\* The statements a handler runs before and at its validation.
BeforeCommit ==
    {"idle", "create_config_schema", "create_config_existing",
     "update_config_schema"}

Rejects(w) ==
    pc[w] # "done" /\ pc'[w] = "done" /\ ValidationFailed(res'[w])

\* C5: a write whose value fails validation changes nothing.  No statement
\* up to the validation writes the store; a value that does not conform is
\* rejected at the validation with ValidationFailed; and the rejection
\* leaves no entry and no history record for the key of a createConfig and
\* the entry of an updateConfig as it was loaded.
C5_RejectedWriteChangesNothing ==
    [][\A w \in Workers :
        /\ (pc[w] \in BeforeCommit /\ pc'[w] # pc[w]) => store' = store
        /\ (pc'[w] = "create_config_existing" /\ pc[w] # pc'[w])
              => pc[w] = "create_config_schema"
        /\ (pc'[w] \in {"create_config_schema", "update_config_schema"}
              /\ pc[w] # pc'[w]) => pc[w] = "idle"
        /\ (/\ pc[w] = "create_config_existing" /\ pc'[w] # pc[w]
            /\ ~validate(loc[w].value, schemas[loc[w].schema_id].structure)
            /\ \A id \in Ids(entries) :
                    ~(/\ entries[id].namespace_id = loc[w].namespace_id
                      /\ entries[id].key = loc[w].key))
              => Rejects(w)
        /\ (/\ pc[w] = "update_config_schema" /\ pc'[w] # pc[w]
            /\ ~validate(loc[w].new_value,
                         schemas[entries[loc[w].id].schema_id].structure))
              => Rejects(w)
        /\ Rejects(w) =>
            /\ pc[w] \in {"create_config_existing", "update_config_schema"}
            /\ loc'[w].op = "create_config" =>
                \A id \in Ids(entries') :
                    ~(/\ entries'[id].namespace_id = loc'[w].namespace_id
                      /\ entries'[id].key = loc'[w].key)
            /\ loc'[w].op = "update_config" =>
                /\ entries'[loc'[w].id].value = loc'[w].value
                /\ entries'[loc'[w].id].version = loc'[w].version
                /\ Len(HistoryIn(history', loc'[w].id)) = loc'[w].version
      ]_vars

\* An updateConfig rejected by the validation, on an entry already updated
\* once.
C5_Witness ==
    /\ Done(1, "update_config")
    /\ ValidationFailed(res[1])
    /\ entries[loc[1].id].version = 2

\* ------------------------------------------------------------ C6
VersionsOf(name) == SelectSeq(schemas, LAMBDA r : r.name = name)

C8_PinnedSchemaVersion ==
    [][/\ \A id \in Ids(entries) :
            /\ id \in Ids(entries')
            /\ entries'[id].schema_id = entries[id].schema_id
       /\ \A i \in Ids(schemas) :
            /\ i \in Ids(schemas')
            /\ schemas'[i].structure = schemas[i].structure
       /\ \A w \in Workers :
            /\ (pc[w] = "create_config_commit" /\ entries' # entries)
               => entries'[Len(entries')].schema_id = loc[w].schema_id
            /\ (pc[w] = "update_config_schema" /\ pc'[w] # pc[w])
               => LET pinned == schemas[entries[loc[w].id].schema_id]
                  IN  IF validate(loc[w].new_value, pinned.structure)
                      THEN pc'[w] = "update_config_commit"
                      ELSE Rejects(w)
      ]_vars

\* An accepted update whose value the newest version of the schema's name
\* refuses.
C8_Witness ==
    /\ Accepted(1, "update_config")
    /\ \E i \in Ids(schemas) :
        /\ schemas[i].name = schemas[entries[loc[1].id].schema_id].name
        /\ schemas[i].is_active
        /\ i # entries[loc[1].id].schema_id
        /\ ~validate(loc[1].new_value, schemas[i].structure)

\* ------------------------------------------------------------ C9
\* C9: no read returns a soft-deleted entry or namespace, and the by-name
\* read answers only for a live namespace holding a live entry of the key.
C9_DeletedExcludedFromReads ==
    \A w \in Workers :
        /\ Accepted(w, "read_config") =>
            entries[res[w].body.id].deleted_at = NULL
        /\ Accepted(w, "read_configs") =>
            \A b \in res[w].body : entries[b.id].deleted_at = NULL
        /\ Accepted(w, "read_namespace") =>
            namespaces[res[w].body.id].deleted_at = NULL
        /\ Accepted(w, "read_namespaces") =>
            \A b \in res[w].body : namespaces[b.id].deleted_at = NULL
        /\ Accepted(w, "get_reference_data") =>
            \E n \in Ids(namespaces), id \in Ids(entries) :
                /\ namespaces[n].name = loc[w].namespace
                /\ namespaces[n].deleted_at = NULL
                /\ entries[id].namespace_id = n
                /\ entries[id].key = loc[w].key
                /\ entries[id].deleted_at = NULL

\* ------------------------------------------------------------ C10
\* C10: createConfig fails with NotFound whenever the namespace id is
\* missing or refers to a soft-deleted namespace.
C10_DeletedNamespaceNotFound ==
    \A w \in Workers :
        (/\ Done(w, "create_config")
         /\ \/ loc[w].namespace_id \notin Ids(namespaces)
            \/ namespaces[loc[w].namespace_id].deleted_at # NULL)
        => NotFound(res[w])

\* ------------------------------------------------------------ C11
LiveNamespace(id) ==
    id \in Ids(namespaces) /\ namespaces[id].deleted_at = NULL
LiveSchema(id) == id \in Ids(schemas) /\ schemas[id].deleted_at = NULL
LiveEntry(id) == id \in Ids(entries) /\ entries[id].deleted_at = NULL

\* C11: createConfig in a live namespace fails with NotFound whenever its
\* schema id is missing or refers to a soft-deleted schema version.
C11_DeletedSchemaNotFound ==
    \A w \in Workers :
        (/\ Done(w, "create_config")
         /\ LiveNamespace(loc[w].namespace_id)
         /\ ~LiveSchema(loc[w].schema_id))
        => NotFound(res[w])

\* ------------------------------------------------------------ C12
\* A non-deleted entry holds the (namespace, key) of worker w's createConfig.
KeyOccupied(w) ==
    \E id \in Ids(entries) :
        /\ entries[id].deleted_at = NULL
        /\ entries[id].namespace_id = loc[w].namespace_id
        /\ entries[id].key = loc[w].key

\* C12: a createConfig that has passed the namespace and schema checks
\* fails with Conflict exactly when a non-deleted entry holds its
\* (namespace, key); with a key held by soft-deleted entries only and a
\* conforming value it goes on to persist a fresh entry at version 1.
C12_ConflictOnlyForLiveKey ==
    [][\A w \in Workers :
        /\ (pc[w] = "create_config_existing" /\ pc'[w] # pc[w])
            => /\ Conflict(res'[w]) <=> KeyOccupied(w)
               /\ (~KeyOccupied(w)
                      /\ validate(loc[w].value, loc[w].structure))
                   => pc'[w] = "create_config_commit"
        /\ (pc[w] = "create_config_commit" /\ pc'[w] # pc[w])
            => /\ Len(entries') = Len(entries) + 1
               /\ entries'[Len(entries')].version = 1
               /\ entries'[Len(entries')].deleted_at = NULL
      ]_vars

\* ------------------------------------------------------------ C13
\* C13: in every state of every interleaving of createConfig, updateConfig
\* and the soft-deletes, at most one non-deleted entry exists for each
\* (namespace, key).
C13_OneLiveEntryPerKey ==
    \A i, j \in Ids(entries) :
        (/\ entries[i].deleted_at = NULL
         /\ entries[j].deleted_at = NULL
         /\ entries[i].namespace_id = entries[j].namespace_id
         /\ entries[i].key = entries[j].key) => i = j

\* Two createConfig calls for one (namespace, key) that both passed the
\* duplicate-key lookup: one entry is in, the other insert was refused.
C13_Witness ==
    /\ Done(1, "create_config")
    /\ Done(2, "create_config")
    /\ res[2] = IntegrityError
    /\ loc[1].namespace_id = loc[2].namespace_id
    /\ loc[1].key = loc[2].key
    /\ \E id \in Ids(entries) :
        /\ entries[id].deleted_at = NULL
        /\ entries[id].namespace_id = loc[2].namespace_id
        /\ entries[id].key = loc[2].key

\* ------------------------------------------------------------ C14
\* Worker w commits an accepted updateConfig on entry id in this step.
UpdateAccepted(w, id) ==
    /\ pc[w] = "update_config_commit"
    /\ pc'[w] # pc[w]
    /\ loc[w].id = id

\* C14: in every step of every interleaving, an entry's version stays the
\* same or increases by exactly 1, and it increases exactly in the steps
\* that commit an accepted updateConfig on that entry.
C14_VersionStepsByOne ==
    [][\A id \in Ids(entries) :
        /\ id \in Ids(entries')
        /\ \/ entries'[id].version = entries[id].version
           \/ entries'[id].version = entries[id].version + 1
        /\ entries'[id].version = entries[id].version + 1
            <=> \E w \in Workers : UpdateAccepted(w, id)
      ]_vars

\* ------------------------------------------------------------ C15
\* Worker w's accepted write appends its history record in this step.
AppendsRecord(w) ==
    /\ pc[w] \in {"create_config_history", "update_config_commit"}
    /\ pc'[w] # pc[w]

\* C15: the history is append-only.  Every step keeps the records written
\* so far, with their value and version, and adds at most one; a record is
\* added only by the commit of an accepted createConfig or updateConfig, with
\* the entry's resulting version and value; and every accepted createConfig
\* or updateConfig passes through exactly that one step.
C15_HistoryAppendOnly ==
    [][/\ Len(history') \in {Len(history), Len(history) + 1}
       /\ SubSeq(history', 1, Len(history)) = history
       /\ history' # history =>
            \E w \in Workers :
                /\ AppendsRecord(w)
                /\ LET r == history'[Len(history')]
                       id == IF pc[w] = "create_config_history"
                             THEN loc[w].new_config.id ELSE loc[w].id
                   IN  /\ r.config_id = id
                       /\ r.version = entries'[id].version
                       /\ r.value = entries'[id].value
       /\ \A w \in Workers :
            /\ AppendsRecord(w) => history' # history
            /\ (/\ pc[w] # "done" /\ pc'[w] = "done"
                /\ res'[w].status = 200
                /\ loc'[w].op \in {"create_config", "update_config"})
               => pc[w] \in {"create_config_history", "update_config_refresh"}
            /\ (pc[w] # pc'[w] /\ pc'[w] = "update_config_refresh")
               => pc[w] = "update_config_commit"
            /\ (pc[w] # pc'[w] /\ pc'[w] = "update_config_commit")
               => pc[w] = "update_config_schema"
            /\ (pc[w] # pc'[w] /\ pc'[w] = "create_config_history")
               => pc[w] = "create_config_refresh"
      ]_vars

\* An entry created, updated and then soft-deleted: its two records remain.
C15_Witness ==
    /\ Accepted(1, "delete_config")
    /\ entries[loc[1].id].deleted_at # NULL
    /\ Len(HistoryOf(loc[1].id)) = 2
    /\ HistoryOf(loc[1].id)[2].version = 2

\* ------------------------------------------------------------ C16
\* The soft-delete handlers and the table each works on.
DeleteOps == {"delete_config", "delete_namespace", "delete_schema"}
TableOf(op, n, s, e) ==
    IF op = "delete_config" THEN e
    ELSE IF op = "delete_namespace" THEN n ELSE s

\* Worker w receives a soft-delete request in this step.
DeleteArrives(w) == pc[w] = "idle" /\ loc'[w].op \in DeleteOps
\* Worker w commits its soft-delete in this step.
DeleteCommits(w) ==
    /\ loc[w].op \in DeleteOps
    /\ pc[w] \notin {"idle", "done"}
    /\ pc'[w] # pc[w]

\* C16: a soft-delete of a live config entry, namespace or schema succeeds
\* and sets the row's deleted timestamp, changing nothing else; a soft-delete
\* of an id that is missing or already deleted fails with NotFound and
\* changes nothing; and no step clears a deleted timestamp, so every later
\* soft-delete of the same id fails.
C16_SoftDeleteNotIdempotent ==
    [][/\ \A w \in Workers :
            /\ DeleteArrives(w) =>
                LET rows == TableOf(loc'[w].op, namespaces, schemas, entries)
                    id == loc'[w].id
                IN  /\ store' = store
                    /\ IF id \in Ids(rows) /\ rows[id].deleted_at = NULL
                       THEN pc'[w] \notin {"idle", "done"}
                       ELSE pc'[w] = "done" /\ NotFound(res'[w])
            /\ DeleteCommits(w) =>
                LET rows == TableOf(loc[w].op, namespaces, schemas, entries)
                    rows2 == TableOf(loc[w].op, namespaces', schemas',
                                     entries')
                    id == loc[w].id
                IN  /\ pc'[w] = "done"
                    /\ res'[w].status = 200
                    /\ rows2[id].deleted_at # NULL
                    /\ rows2 = [rows EXCEPT ![id].deleted_at =
                                                rows2[id].deleted_at]
                    /\ history' = history
                    /\ loc[w].op # "delete_config" => entries' = entries
                    /\ loc[w].op # "delete_namespace" =>
                            namespaces' = namespaces
                    /\ loc[w].op # "delete_schema" => schemas' = schemas
       /\ \A id \in Ids(entries) :
            entries[id].deleted_at # NULL =>
                entries'[id].deleted_at = entries[id].deleted_at
       /\ \A id \in Ids(namespaces) :
            namespaces[id].deleted_at # NULL =>
                namespaces'[id].deleted_at = namespaces[id].deleted_at
       /\ \A id \in Ids(schemas) :
            schemas[id].deleted_at # NULL =>
                schemas'[id].deleted_at = schemas[id].deleted_at
      ]_vars

\* A second soft-delete of an entry, answered NotFound, with the namespace
\* soft-deleted in between.
C16_Witness ==
    /\ Done(1, "delete_config")
    /\ NotFound(res[1])
    /\ loc[1].id \in Ids(entries)
    /\ entries[loc[1].id].deleted_at # NULL
    /\ \E n \in Ids(namespaces) : namespaces[n].deleted_at # NULL

\* ------------------------------------------------------------ C17
\* C17: an updateConfig whose entry id is missing or soft-deleted fails with
\* NotFound at its lookup and changes nothing, and no step changes a
\* soft-deleted entry or the history records of one.
C17_UpdateOfDeletedNotFound ==
    [][/\ \A w \in Workers :
            (/\ pc[w] = "idle"
             /\ loc'[w].op = "update_config"
             /\ ~LiveEntry(loc'[w].id))
            => /\ pc'[w] = "done"
               /\ NotFound(res'[w])
               /\ store' = store
       /\ \A id \in Ids(entries) :
            entries[id].deleted_at # NULL =>
                /\ entries'[id] = entries[id]
                /\ HistoryIn(history', id) = HistoryOf(id)
      ]_vars

\* An updateConfig answered NotFound on an entry that was updated once and
\* then soft-deleted.
C17_Witness ==
    /\ Done(1, "update_config")
    /\ NotFound(res[1])
    /\ loc[1].id \in Ids(entries)
    /\ entries[loc[1].id].deleted_at # NULL
    /\ entries[loc[1].id].version = 2

\* ------------------------------------------------------------ C18
\* C18: softDeleteSchema changes no entry and no history record; an entry
\* bound to a soft-deleted schema version stays readable by id; and an
\* updateConfig on it is validated against that version's structure,
\* accepted when the value conforms and rejected when it does not.
C18_SchemaDeleteLeavesEntries ==
    [][\A w \in Workers :
        /\ (loc[w].op = "delete_schema" /\ pc'[w] # pc[w])
            => entries' = entries /\ history' = history
        /\ (/\ pc[w] = "idle"
            /\ loc'[w].op = "read_config"
            /\ LiveEntry(loc'[w].id)
            /\ ~LiveSchema(entries[loc'[w].id].schema_id))
            => res'[w] = Ok(EntryBody(loc'[w].id, entries))
        /\ (/\ pc[w] = "update_config_schema"
            /\ pc'[w] # pc[w]
            /\ ~LiveSchema(entries[loc[w].id].schema_id))
            => IF validate(loc[w].new_value,
                           schemas[entries[loc[w].id].schema_id].structure)
               THEN pc'[w] = "update_config_commit"
               ELSE Rejects(w)
      ]_vars

\* An accepted updateConfig on an entry whose schema version is soft-deleted.
C18_Witness ==
    /\ Accepted(1, "update_config")
    /\ ~LiveSchema(entries[loc[1].id].schema_id)
    /\ entries[loc[1].id].deleted_at = NULL
    /\ res[1].body.version = 2
    /\ res[1].body.value = loc[1].new_value

\* ------------------------------------------------------------ C19
ConfigWrites == {"create_config", "update_config", "delete_config"}

\* The handler worker w runs in this step.
OpOf(w) == IF pc[w] = "idle" THEN loc'[w].op ELSE loc[w].op

\* The existing entry the request of worker w is aimed at: for a
\* createConfig the row it has inserted, none (0) before the insert.
TargetOf(w) ==
    IF OpOf(w) = "create_config"
    THEN IF pc[w] \in {"create_config_refresh", "create_config_history"}
         THEN loc[w].new_config.id ELSE 0
    ELSE IF pc[w] = "idle" THEN loc'[w].id ELSE loc[w].id

\* C19: every step of a createConfig, updateConfig or softDeleteConfig,
\* accepted or rejected, leaves every entry other than the one it is aimed
\* at as it was, with its history records, and leaves the namespaces and
\* the schemas unchanged.
C19_OtherEntriesUntouched ==
    [][\A w \in Workers :
        (pc'[w] # pc[w] /\ OpOf(w) \in ConfigWrites)
        => /\ namespaces' = namespaces
           /\ schemas' = schemas
           /\ \A id \in Ids(entries) :
                id # TargetOf(w) =>
                    /\ id \in Ids(entries')
                    /\ entries'[id] = entries[id]
                    /\ HistoryIn(history', id) = HistoryOf(id)
      ]_vars

\* An accepted updateConfig on one of two entries, the other one still at
\* version 1 with another value.
C19_Witness ==
    /\ Accepted(1, "update_config")
    /\ \E id \in Ids(entries) :
        /\ id # loc[1].id
        /\ entries[id].version = 1
        /\ entries[id].value # loc[1].new_value
        /\ Len(HistoryOf(id)) = 1

\* ------------------------------------------------------------ C20
\* Two finished requests of the same handler with the same inputs (for the
\* read with reference resolution, the same secret provider among them)
\* carry the same response.
SameRequest(w1, w2) ==
    /\ pc[w1] = "done"
    /\ pc[w2] = "done"
    /\ loc[w1].op = loc[w2].op
    /\ loc[w1] = loc[w2]

SameResponse(w1, w2) ==
    /\ res[w1].status = res[w2].status
    /\ res[w1].detail = res[w2].detail
    /\ res[w1].status = 200 => res[w1].body = res[w2].body

\* C20: the reads (getConfig, listConfigs, getSchema, getActiveSchemas, the
\* namespace reads, the by-name read with or without reference resolution,
\* lookup, search and the standalone validate) change no namespace, schema,
\* entry or history record, and a read repeated with no write in between
\* returns the same result.
C20_ReadsHaveNoSideEffects ==
    /\ [](\A w1, w2 \in Workers : SameRequest(w1, w2) => SameResponse(w1, w2))
    /\ [][store' = store]_vars

\* The by-name read with reference resolution, twice with the same inputs
\* and provider, on a document one of whose strings was substituted.
C20_Witness ==
    /\ Accepted(1, "get_reference_data")
    /\ SameRequest(1, 2)
    /\ loc[1].resolve_vault
    /\ \E id \in Ids(entries) :
        /\ entries[id].key = loc[1].key
        /\ res[1].body.value # entries[id].value

\* ------------------------------------------------------------ C21
\* C21: createNamespace fails with Conflict exactly when a non-deleted
\* namespace already has its name, and no two non-deleted namespaces share a
\* name in any reachable state.
C21_NamespaceConflictOnlyForLiveName ==
    /\ [](\A i, j \in Ids(namespaces) :
            (/\ namespaces[i].deleted_at = NULL
             /\ namespaces[j].deleted_at = NULL
             /\ namespaces[i].name = namespaces[j].name) => i = j)
    /\ [][\A w \in Workers :
            (pc[w] = "idle" /\ loc'[w].op = "create_namespace")
            => (Conflict(res'[w])
                <=> \E n \in Ids(namespaces) :
                        /\ namespaces[n].deleted_at = NULL
                        /\ namespaces[n].name = loc'[w].name)]_vars

\* ------------------------------------------------------------ C22
\* C22: getActiveSchemas returns the schema versions that are not
\* soft-deleted and active, and no other; getSchema(id) fails with NotFound
\* when the id is missing or soft-deleted and returns the version otherwise,
\* an inactive one included.
C22_SchemaReads ==
    \A w \in Workers :
        /\ Accepted(w, "read_schemas") =>
            res[w].body =
                {SchemaBody(i, schemas) :
                    i \in {j \in Ids(schemas) :
                              LiveSchema(j) /\ schemas[j].is_active}}
        /\ Done(w, "read_schema") =>
            IF LiveSchema(loc[w].id)
            THEN res[w] = Ok(SchemaBody(loc[w].id, schemas))
            ELSE NotFound(res[w])
        /\ Done(w, "read_schemas") => res[w].status = 200

\* getSchema returning a superseded version, with the name's newest version
\* soft-deleted.
C22_Witness ==
    /\ Accepted(1, "read_schema")
    /\ ~schemas[loc[1].id].is_active
    /\ \E i \in Ids(schemas) : schemas[i].is_active /\ ~LiveSchema(i)

\* ------------------------------------------------------------ C23
\* The string, number and null leaves of a document in document order, and
\* the document with its leaves blanked: its keys, lengths and order.
RECURSIVE Concat(_)
Concat(seqs) ==
    IF seqs = <<>> THEN <<>> ELSE seqs[1] \o Concat(Tail(seqs))

RECURSIVE Leaves(_)
Leaves(value) ==
    CASE value.t = "dict" ->
            Concat([i \in 1..Len(value.v) |-> Leaves(value.v[i][2])])
      [] value.t = "list" ->
            Concat([i \in 1..Len(value.v) |-> Leaves(value.v[i])])
      [] OTHER -> <<value>>

RECURSIVE Skeleton(_)
Skeleton(value) ==
    CASE value.t = "dict" ->
            JDict([i \in 1..Len(value.v) |->
                    <<value.v[i][1], Skeleton(value.v[i][2])>>])
      [] value.t = "list" ->
            JList([i \in 1..Len(value.v) |-> Skeleton(value.v[i])])
      [] OTHER -> JNone

\* The value of the entry a reference request names, and the request
\* having been answered with that value resolved.
StoredValue(w) ==
    entries[First({i \in Ids(entries) :
                      /\ entries[i].namespace_id = loc[w].ns
                      /\ entries[i].key = loc[w].key})].value
Resolved(w) ==
    /\ Done(w, "get_reference_data")
    /\ loc[w].resolve_vault
    /\ "kv_client" \in DOMAIN loc[w]

\* A provider that knows every name.
FullVault ==
    [client |-> "SecretClient",
     secrets |-> [name \in {"db-pw", "missing"} |-> "s3cr3t"]]

\* The error marker of a failed lookup.
ErrorMarker(failure) == JStr("[ERROR: " \o failure.e \o "]")

\* C23: resolution never raises: with every provider, also one that always
\* fails, the request for a resolved value is answered; each reference
\* whose lookup failed is an error marker in the answer, every other leaf
\* is what it would be had no lookup failed, and the keys, lengths and
\* order of the document are kept.
C23_FailuresDegradeOneField ==
    \A w \in Workers :
        Resolved(w) =>
            LET kv == loc[w].kv_client
                before == Leaves(StoredValue(w))
                after == Leaves(res[w].body.value)
                ideal == Leaves(resolve_secrets(StoredValue(w), FullVault))
                Failed(i) ==
                    /\ isinstance(before[i], "str")
                    /\ vault_match(Chars(before[i].v)) # <<>>
                    /\ get_secret(kv,
                          Text(vault_match(Chars(before[i].v)))).raised
            IN  /\ res[w].status = 200
                /\ Skeleton(res[w].body.value) = Skeleton(StoredValue(w))
                /\ Len(after) = Len(before)
                /\ \A i \in 1..Len(before) :
                       IF Failed(i)
                       THEN after[i] = ErrorMarker(get_secret(kv,
                                Text(vault_match(Chars(before[i].v)))))
                       ELSE after[i] = ideal[i]

\* A document with a failed and two successful lookups is resolved.
C23_Witness ==
    /\ Resolved(1)
    /\ isinstance(StoredValue(1), "dict")
    /\ StoredValue(1) = NestedDoc
    /\ loc[1].kv_client.client # NULL
    /\ res[1].body.value.v[1][2] = JStr("s3cr3t")
    /\ res[1].body.value.v[2][2].v[2] = JStr("s3cr3t")
    /\ res[1].body.value.v[2][2].v[1].v[1][2]
          \notin {JStr("s3cr3t"), JStr("vault://missing")}

\* ------------------------------------------------------------ C24
\* A string that is vault://<name> as a whole, and its name: everything
\* after the prefix.
IsReference(chars) ==
    /\ Len(chars) > Len(vault_prefix)
    /\ SubSeq(chars, 1, Len(vault_prefix)) = vault_prefix
NameOf(chars) == SubSeq(chars, Len(vault_prefix) + 1, Len(chars))

\* What a string leaf becomes when it is replaced by the secret of name.
Replacement(kv, name) ==
    IF get_secret(kv, name).raised
    THEN ErrorMarker(get_secret(kv, name))
    ELSE JStr(get_secret(kv, name).value)

\* C24: resolution replaces exactly the string leaves, at any depth, that
\* are vault://<name> as a whole, by the secret of the name that follows
\* the prefix; keys, lengths, order, the other leaves and the strings that
\* hold vault:// after their first character are returned unchanged.
C24_ReplacesExactlyReferences ==
    \A w \in Workers :
        Resolved(w) =>
            LET kv == loc[w].kv_client
                before == Leaves(StoredValue(w))
                after == Leaves(res[w].body.value)
            IN  /\ Skeleton(res[w].body.value) = Skeleton(StoredValue(w))
                /\ Len(after) = Len(before)
                /\ \A i \in 1..Len(before) :
                       IF /\ isinstance(before[i], "str")
                          /\ IsReference(Chars(before[i].v))
                       THEN after[i] =
                              Replacement(kv,
                                  Text(NameOf(Chars(before[i].v))))
                       ELSE after[i] = before[i]

\* ------------------------------------------------------------ C25
\* No string leaf of the document begins with vault://.
NoVaultString(value) ==
    \A i \in 1..Len(Leaves(value)) :
        isinstance(Leaves(value)[i], "str")
        => LET chars == Chars(Leaves(value)[i].v)
           IN  \/ Len(chars) < Len(vault_prefix)
               \/ SubSeq(chars, 1, Len(vault_prefix)) # vault_prefix

\* C25: a value without a vault:// string is returned as it is by the
\* resolution, whatever the provider.
C25_NoReferenceRoundTrip ==
    \A w \in Workers :
        (Resolved(w) /\ NoVaultString(StoredValue(w)))
        => /\ res[w].body.value.t = StoredValue(w).t
           /\ res[w].body.value = StoredValue(w)

\* An array of objects with string, number and absent fields was resolved
\* with the provider that holds a secret.
C25_Witness ==
    /\ Resolved(1)
    /\ NoVaultString(StoredValue(1))
    /\ isinstance(StoredValue(1), "list")
    /\ Len(Leaves(StoredValue(1))) = 5
    /\ loc[1].kv_client.client # NULL

\* ------------------------------------------------------------ C26
\* has_vault_references was applied to a document.
Detected(w) == Done(w, "has_vault_references")

\* resolve_secrets would replace a string of the document.
WouldSubstitute(value) ==
    \E kv \in KeyVaultClients :
        Leaves(resolve_secrets(value, kv)) # Leaves(value)

\* C26: has_vault_references answers true exactly for the documents in
\* which the resolution would replace a string: false means the resolution
\* returns the document as it is, true means a string leaf is a
\* vault://<name> reference.
C26_DetectsExactlyReferences ==
    \A w \in Workers :
        Detected(w) =>
            /\ ~res[w].value =>
                  \A kv \in KeyVaultClients :
                      Leaves(resolve_secrets(loc[w].config_value, kv))
                        = Leaves(loc[w].config_value)
            /\ res[w].value =>
                  /\ WouldSubstitute(loc[w].config_value)
                  /\ \E i \in 1..Len(Leaves(loc[w].config_value)) :
                        LET leaf == Leaves(loc[w].config_value)[i]
                        IN  /\ isinstance(leaf, "str")
                            /\ IsReference(Chars(leaf.v))

\* ------------------------------------------------------------ C27
\* The request op of worker w found its namespace and its entry, and has
\* been answered.
Served(w, op) ==
    /\ Done(w, op)
    /\ loc[w].ns # 0
    /\ \E i \in Ids(entries) :
          entries[i].namespace_id = loc[w].ns /\ entries[i].key = loc[w].key

\* Element i of the array is an object whose field, as a string, is id;
\* the value of a field that the object lacks is taken as None, as
\* item.get gives it.
FieldIs(value, i, id_field, id) ==
    /\ isinstance(value.v[i], "dict")
    /\ str(get(value.v[i], id_field)) = Chars(id)

\* C27: a lookup in an array answers with the first element, in array
\* order, whose field coerced to a string is the id asked for (the number
\* 1 matches "1"), and with NotFound when no element matches.
C27_LookupFirstMatch ==
    \A w \in Workers :
        (Served(w, "lookup_item_in_array")
            /\ isinstance(StoredValue(w), "list"))
        => LET value == StoredValue(w)
               Match(i) == FieldIs(value, i, loc[w].id_field, loc[w].id)
           IN  IF \E i \in 1..Len(value.v) : Match(i)
               THEN /\ res[w].status = 200
                    /\ \E k \in 1..Len(value.v) :
                          /\ Match(k)
                          /\ \A j \in 1..(k - 1) : ~Match(j)
                          /\ res[w].body = value.v[k]
               ELSE /\ NotFound(res[w])
                    /\ res[w].detail = "Item not found"

\* The lookup of "1" in [{"id": 1, ...}, {"id": "1", ...}, ...] returned
\* the element with the number 1.
C27_Witness ==
    /\ Accepted(1, "lookup_item_in_array")
    /\ loc[1].id = "1"
    /\ loc[1].id_field = "id"
    /\ Len(StoredValue(1).v) = 3
    /\ res[1].body = StoredValue(1).v[1]
    /\ get(res[1].body, "id") = JInt(1)
    /\ get(StoredValue(1).v[2], "id") = JStr("1")

\* ------------------------------------------------------------ C28
\* The value is an array of objects.
ArrayOfObjects(value) ==
    /\ isinstance(value, "list")
    /\ \A i \in 1..Len(value.v) : isinstance(value.v[i], "dict")

TypeMismatch(r) == r.status = 400 /\ r.detail = "Config is not an array type"

\* C28: a lookup in a value that is not an array of objects fails with
\* TypeMismatch, when the value is not an array and when it is an array
\* with an element that is not an object.
C28_LookupNeedsArrayOfObjects ==
    \A w \in Workers :
        (Served(w, "lookup_item_in_array")
            /\ ~ArrayOfObjects(StoredValue(w)))
        => TypeMismatch(res[w])

\* C28, amended: a lookup fails with TypeMismatch exactly when the value
\* is not an array; the elements of an array that are not objects are
\* passed over, so the lookup answers with an object of the array or with
\* NotFound.
C28_LookupNeedsArray ==
    \A w \in Workers :
        Served(w, "lookup_item_in_array")
        => LET value == StoredValue(w)
           IN  IF ~isinstance(value, "list")
               THEN TypeMismatch(res[w])
               ELSE /\ ~TypeMismatch(res[w])
                    /\ \/ /\ res[w].status = 200
                          /\ isinstance(res[w].body, "dict")
                          /\ \E i \in 1..Len(value.v) :
                                /\ isinstance(value.v[i], "dict")
                                /\ res[w].body = value.v[i]
                       \/ /\ NotFound(res[w])
                          /\ res[w].detail = "Item not found"
                    /\ (\A i \in 1..Len(value.v) :
                            ~isinstance(value.v[i], "dict"))
                       => NotFound(res[w])

\* The lookup of "UC001" in ["UC001", {"usecase_id": "UC001"}] passed
\* over the string and returned the object.
C28_Witness ==
    /\ Accepted(1, "lookup_item_in_array")
    /\ loc[1].id = "UC001"
    /\ ~ArrayOfObjects(StoredValue(1))
    /\ res[1].body = StoredValue(1).v[2]

\* ------------------------------------------------------------ C29
\* The serialized form of a value holds the query, whatever the case of
\* the letters of either.
Holds(value, q) == Contains(lower(dumps(value)), lower(Chars(q)))

\* The positions of the elements of an array that hold the query, in
\* array order.
RECURSIVE Hits(_, _, _)
Hits(value, q, i) ==
    IF i > Len(value.v) THEN <<>>
    ELSE (IF Holds(value.v[i], q) THEN <<i>> ELSE <<>>)
         \o Hits(value, q, i + 1)

\* C29: a search in an array answers with exactly the elements whose own
\* serialized form holds the query, in their order, each judged by
\* itself, and with their number as count; a search in another value
\* answers with [value] and count 1 when the serialized value holds the
\* query and with [] and count 0 otherwise; the case of letters does not
\* matter.
C29_SearchResults ==
    \A w \in Workers :
        Served(w, "search_in_config")
        => LET value == StoredValue(w)
               body == res[w].body
               hits == Hits(value, loc[w].q, 1)
           IN  /\ res[w].status = 200
               /\ body.count = Len(body.results)
               /\ IF isinstance(value, "list")
                  THEN /\ Len(body.results) = Len(hits)
                       /\ \A k \in 1..Len(hits) :
                             /\ body.results[k].t = value.v[hits[k]].t
                             /\ body.results[k] = value.v[hits[k]]
                  ELSE IF Holds(value, loc[w].q)
                  THEN /\ Len(body.results) = 1
                       /\ body.results[1] = value
                  ELSE body.results = <<>>

\* The search of "PIE" in ["apple pie", "banana split"] returned
\* ["apple pie"] with count 1.
C29_Witness ==
    /\ Accepted(1, "search_in_config")
    /\ loc[1].q = "PIE"
    /\ isinstance(StoredValue(1), "list")
    /\ Len(StoredValue(1).v) = 2
    /\ res[1].body.count = 1
    /\ isinstance(res[1].body.results[1], "str")
    /\ res[1].body.results = <<JStr("apple pie")>>

\* ------------------------------------------------------------ C30
\* The object has the field.
HasField(item, id_field) ==
    \E i \in 1..Len(item.v) : item.v[i][1] = id_field

\* C30: a lookup never answers with an element that lacks the field asked
\* for, whatever the id, the text "None" included: such an object is no
\* match.
C30_LookupNeedsField ==
    \A w \in Workers :
        Accepted(w, "lookup_item_in_array")
        => /\ isinstance(res[w].body, "dict")
           /\ HasField(res[w].body, loc[w].id_field)

\* ------------------------------------------------------------ C31
\* The entry that the reference request of worker w found by namespace
\* name and key.
FoundEntry(w) ==
    First({i \in Ids(entries) :
              /\ entries[i].namespace_id = loc[w].ns
              /\ entries[i].key = loc[w].key})

\* C31: the read by namespace and key of a live entry answers with the
\* payload of the last accepted write of the entry and with the number of
\* its accepted writes as version, the value and version that the read by
\* id gives.
C31_ByNameReadsLastWrite ==
    \A w \in Workers :
        (Accepted(w, "get_reference_data") /\ LiveEntry(FoundEntry(w)))
        => LET e == FoundEntry(w)
               writes == HistoryOf(e)
           IN  /\ writes # <<>>
               /\ res[w].body.version = Len(writes)
               /\ res[w].body.value = writes[Len(writes)].value
               /\ res[w].body.value = EntryBody(e, entries).value
               /\ res[w].body.version = EntryBody(e, entries).version

\* The entry was read by name after an accepted update that changed its
\* payload.
C31_Witness ==
    /\ Accepted(1, "get_reference_data")
    /\ LiveEntry(FoundEntry(1))
    /\ res[1].body.version = 2
    /\ res[1].body.value # HistoryOf(FoundEntry(1))[1].value

\* ------------------------------------------------------------ C32
\* A live entry other than the one the request of worker w created holds
\* the key the request asks for.
OccupiedBefore(w) ==
    \E i \in Ids(entries) :
        /\ LiveEntry(i)
        /\ entries[i].namespace_id = loc[w].namespace_id
        /\ entries[i].key = loc[w].key
        /\ ~(res[w].status = 200 /\ res[w].body.id = i)

\* The value of the request does not conform to the schema it names.
NonConforming(w) ==
    /\ loc[w].schema_id \in Ids(schemas)
    /\ ~validate(loc[w].value, schemas[loc[w].schema_id].structure)

\* C32: createConfig checks namespace, schema, key occupancy and
\* validation in this order and reports the first failure: a missing
\* namespace is NotFound whatever the rest, a missing schema is NotFound,
\* an occupied key is Conflict also when the value does not conform, and
\* ValidationFailed is reported only when none of the earlier checks fails.
C32_FirstFailingCheck ==
    \A w \in Workers :
        Done(w, "create_config")
        => /\ loc[w].namespace_id \notin Ids(namespaces)
              => (NotFound(res[w])
                    /\ res[w].detail = "Namespace not found")
           /\ (loc[w].namespace_id \in Ids(namespaces)
                 /\ loc[w].schema_id \notin Ids(schemas))
              => NotFound(res[w])
           /\ (LiveNamespace(loc[w].namespace_id)
                 /\ LiveSchema(loc[w].schema_id)
                 /\ OccupiedBefore(w))
              => (Conflict(res[w])
                    /\ res[w].detail
                         = "Config key already exists in this namespace")
           /\ ValidationFailed(res[w])
              => /\ loc[w].namespace_id \in Ids(namespaces)
                 /\ loc[w].schema_id \in Ids(schemas)
                 /\ ~OccupiedBefore(w)
                 /\ NonConforming(w)

\* A create with an occupied key and a value that does not conform was
\* answered Conflict.
C32_Witness ==
    /\ Done(1, "create_config")
    /\ LiveNamespace(loc[1].namespace_id)
    /\ LiveSchema(loc[1].schema_id)
    /\ OccupiedBefore(1)
    /\ NonConforming(1)
    /\ Conflict(res[1])

\* ------------------------------------------------------------ C33
\* The entry is live and its namespace is soft-deleted.
Orphaned(id) ==
    /\ LiveEntry(id)
    /\ entries[id].namespace_id \in Ids(namespaces)
    /\ ~LiveNamespace(entries[id].namespace_id)

\* C33: the soft-delete of a namespace sets the deleted timestamp of that
\* namespace and nothing else; the entries of the namespace keep their
\* deleted state, value, version and history, are returned by the read by
\* id and by the listing, and their updates are accepted.
C33_NamespaceDeleteLeavesEntries ==
    /\ [][\A w \in Workers :
            (pc[w] = "delete_namespace_commit" /\ pc'[w] = "done")
            => /\ entries' = entries
               /\ history' = history
               /\ schemas' = schemas
               /\ Len(namespaces') = Len(namespaces)
               /\ \A n \in Ids(namespaces) :
                     /\ namespaces'[n].name = namespaces[n].name
                     /\ n # loc[w].id
                        => namespaces'[n].deleted_at
                             = namespaces[n].deleted_at
               /\ namespaces'[loc[w].id].deleted_at # NULL]_vars
    /\ [](\A w \in Workers :
            /\ (Done(w, "read_config") /\ Orphaned(loc[w].id))
               => res[w] = Ok(EntryBody(loc[w].id, entries))
            /\ Done(w, "read_configs")
               => \A id \in Ids(entries) :
                     (Orphaned(id)
                        /\ loc[w].namespace_id
                             \in {0, entries[id].namespace_id})
                     => EntryBody(id, entries) \in res[w].body
            /\ (Done(w, "update_config") /\ Orphaned(loc[w].id)
                  /\ validate(loc[w].new_value,
                        schemas[entries[loc[w].id].schema_id].structure))
               => /\ res[w] = Ok(EntryBody(loc[w].id, entries))
                  /\ entries[loc[w].id].value = loc[w].new_value)

\* An entry of a soft-deleted namespace was updated to its version 2.
C33_Witness ==
    /\ Accepted(1, "update_config")
    /\ Orphaned(loc[1].id)
    /\ entries[loc[1].id].version = 2
    /\ Len(HistoryOf(loc[1].id)) = 2

\* ------------------------------------------------------------ C34
\* The rows of a name, and the row of its newest version.
RowsOf(name) == {i \in Ids(schemas) : schemas[i].name = name}
Newest(name) ==
    CHOOSE i \in RowsOf(name) :
        \A j \in RowsOf(name) : schemas[j].version <= schemas[i].version

\* C34: the soft-delete of a schema version changes the active flag of no
\* version, and while the newest version of a name is soft-deleted the
\* listing of the active schemas holds no schema of that name.
C34_NoReactivation ==
    /\ [][\A w \in Workers :
            (pc[w] = "delete_schema_commit" /\ pc'[w] = "done")
            => /\ Len(schemas') = Len(schemas)
               /\ \A i \in Ids(schemas) :
                     schemas'[i].is_active = schemas[i].is_active]_vars
    /\ [](\A name \in SchemaNames :
            (RowsOf(name) # {} /\ ~LiveSchema(Newest(name)))
            => /\ \A i \in RowsOf(name) :
                     ~(LiveSchema(i) /\ schemas[i].is_active)
               /\ \A w \in Workers :
                     Done(w, "read_schemas")
                     => \A b \in res[w].body : b.name # name)

\* The active schemas were listed while version 2 of the name was
\* soft-deleted and version 1 was not.
C34_Witness ==
    /\ Accepted(1, "read_schemas")
    /\ res[1].body = {}
    /\ \E name \in SchemaNames :
          /\ Cardinality(RowsOf(name)) = 2
          /\ ~LiveSchema(Newest(name))
          /\ \E i \in RowsOf(name) : LiveSchema(i)

\* ------------------------------------------------------------ C35
\* The rows of the name that were there before the row id was registered.
EarlierRows(id) == {i \in RowsOf(schemas[id].name) : i < id}

StaysDeleted(rows, rows2) ==
    /\ Len(rows2) >= Len(rows)
    /\ \A i \in Ids(rows) :
          rows[i].deleted_at # NULL
          => rows2[i].deleted_at = rows[i].deleted_at

\* Worker w assigns a deleted timestamp in the step: the commit of one of
\* the three soft-deletes.
Stamps(w, label) == pc[w] = label /\ pc'[w] = "done"

\* C36: soft-delete is permanent: no step clears the deleted timestamp of
\* a namespace, schema version or entry, and the only steps that assign
\* one assign it to a row that has none, so that the timestamp is never
\* changed either.
C36_SoftDeletePermanent ==
    [][/\ StaysDeleted(namespaces, namespaces')
       /\ StaysDeleted(schemas, schemas')
       /\ StaysDeleted(entries, entries')
       /\ \A w \in Workers :
             /\ Stamps(w, "delete_namespace_commit")
                => namespaces[loc[w].id].deleted_at = NULL
             /\ Stamps(w, "delete_schema_commit")
                => schemas[loc[w].id].deleted_at = NULL
             /\ Stamps(w, "delete_config_commit")
                => entries[loc[w].id].deleted_at = NULL]_vars

\* A namespace, a schema version and an entry are soft-deleted at the end
\* of a run of six requests.
C36_Witness ==
    /\ left = 0
    /\ \E n \in Ids(namespaces) : namespaces[n].deleted_at # NULL
    /\ \E s \in Ids(schemas) : schemas[s].deleted_at # NULL
    /\ \E e \in Ids(entries) : entries[e].deleted_at # NULL

====
